---- MODULE Spec2Model ----
(***************************************************************************)
(* A model of the clipivot streaming pivot-table engine: the value parser  *)
(* (src/src/parsing.rs), the accumulator family (src/src/aggfunc.rs) and   *)
(* the Aggregator / CliConfig::run_config pipeline                         *)
(* (src/src/aggregation.rs).                                               *)
(*                                                                         *)
(* Strings are sequences of one-character strings, so that case folding,   *)
(* joining with the field separator and decimal parsing are computed       *)
(* character by character as the code computes them.  A Decimal is a pair  *)
(* of an integer mantissa m and a scale e, with value m * 10^(-e).         *)
(***************************************************************************)
EXTENDS Integers, Sequences, FiniteSets, TLC

VARIABLES
    pc,            \* position of the run: "aggregate", "done", "error", "feed", "acc"
    parser,        \* ParsingHelper: [values_type, parse_empty]
    aggtype,       \* the aggregation method T of Aggregator<T>
    index_cols,    \* Aggregator.index_cols
    column_cols,   \* Aggregator.column_cols
    values_col,    \* Aggregator.values_col
    aggregations,  \* Aggregator.aggregations: (row key, column key) -> accumulator
    indexes,       \* Aggregator.indexes: set of row keys
    columns,       \* Aggregator.columns: set of column keys
    line_num,      \* number of records taken from the reader so far
    result,        \* what run_config returned: [kind |-> "none" | "Ok" | an error kind]
    output,        \* the rows handed to the csv writer, in order
    lastCall,      \* history: the last add_record call, its input and what it returned
    calls,         \* history: per cell, the accumulator methods invoked, in order
    nonskipped,    \* history: per cell, the number of records whose value was not skipped
    nskipped,      \* history: the number of records whose value was skipped
    raws,          \* history: the raw value strings passed to add_record, in order
    acc,           \* a stand-alone accumulator (accumulator specifications)
    fed,           \* history: the values given to the stand-alone accumulator, in order
    arg_matches,   \* the command line of main.rs: field selections and ordering flags
    first_seen     \* history: the row keys and the column keys in order of insertion

vars == <<pc, parser, aggtype, index_cols, column_cols, values_col, aggregations,
          indexes, columns, line_num, result, output, lastCall, calls, nonskipped,
          nskipped, raws, acc, fed, arg_matches, first_seen>>

(***************************************************************************)
(* Bounds of the model.                                                    *)
(***************************************************************************)
MaxRecords == 3   \* records in one run of the pivot engine
MaxFeed == 4      \* records in one run of the single-column feed
MaxFed == 5       \* values given to a stand-alone accumulator

(***************************************************************************)
(* Characters and strings.                                                 *)
(***************************************************************************)
UpperChars == <<"A", "B", "C", "D", "E", "F", "G", "H", "I", "J", "K", "L", "M",
                "N", "O", "P", "Q", "R", "S", "T", "U", "V", "W", "X", "Y", "Z">>
LowerChars == <<"a", "b", "c", "d", "e", "f", "g", "h", "i", "j", "k", "l", "m",
                "n", "o", "p", "q", "r", "s", "t", "u", "v", "w", "x", "y", "z">>
DigitChars == <<"0", "1", "2", "3", "4", "5", "6", "7", "8", "9">>

IsAsciiUpper(c) == \E i \in DOMAIN UpperChars : UpperChars[i] = c
IsAsciiDigit(c) == \E i \in DOMAIN DigitChars : DigitChars[i] = c
DigitVal(c) == (CHOOSE i \in DOMAIN DigitChars : DigitChars[i] = c) - 1

\* u8::to_ascii_lowercase on one character
CharToAsciiLowercase(c) ==
    IF IsAsciiUpper(c)
    THEN LowerChars[CHOOSE i \in DOMAIN UpperChars : UpperChars[i] = c]
    ELSE c

\* str::to_ascii_lowercase
ToAsciiLowercase(s) == [i \in DOMAIN s |-> CharToAsciiLowercase(s[i])]

\* usize::to_string
RECURSIVE UsizeToString(_)
UsizeToString(n) ==
    IF n < 10 THEN <<DigitChars[n + 1]>>
    ELSE UsizeToString(n \div 10) \o <<DigitChars[(n % 10) + 1]>>

\* the rest of s from position i on
Suffix(s, i) == SubSeq(s, i, Len(s))

\* positions of character c in s
Positions(s, c) == {i \in DOMAIN s : s[i] = c}

Min(S) == CHOOSE x \in S : \A y \in S : x <= y

(***************************************************************************)
(* Decimal (rust_decimal): value m * 10^(-e).                              *)
(***************************************************************************)
Dec(m, e) == [m |-> m, e |-> e]

Pow10(n) == 10 ^ n

\* the mantissa of d rescaled to scale e (e >= d.e)
Rescale(d, e) == d.m * Pow10(e - d.e)

MaxOf(a, b) == IF a >= b THEN a ELSE b

\* Decimal's PartialEq / PartialOrd compare the numeric values
DecEq(a, b) == Rescale(a, MaxOf(a.e, b.e)) = Rescale(b, MaxOf(a.e, b.e))
DecLt(a, b) == Rescale(a, MaxOf(a.e, b.e)) < Rescale(b, MaxOf(a.e, b.e))

\* an addition of the mantissas as they are, whatever the scales
DecAddUnaligned(a, b) == Dec(a.m + b.m, MaxOf(a.e, b.e))

\* Decimal::checked_add: the operands are aligned to the larger scale
DecAdd(a, b) ==
    Dec(Rescale(a, MaxOf(a.e, b.e)) + Rescale(b, MaxOf(a.e, b.e)), MaxOf(a.e, b.e))

\* Decimal::checked_div by Decimal::new(2, 0): exact, one more digit when odd
DecHalve(a) == IF a.m % 2 = 0 THEN Dec(a.m \div 2, a.e) ELSE Dec(a.m * 5, a.e + 1)

\* Decimal::normalize: strip trailing zeros of the fraction
RECURSIVE DecNormalize(_)
DecNormalize(d) ==
    IF d.e > 0 /\ d.m % 10 = 0 THEN DecNormalize(Dec(d.m \div 10, d.e - 1)) ELSE d

\* the natural number written by a sequence of digits
RECURSIVE DigitsToNat(_)
DigitsToNat(s) ==
    IF Len(s) = 0 THEN 0
    ELSE DigitsToNat(SubSeq(s, 1, Len(s) - 1)) * 10 + DigitVal(s[Len(s)])

AllDigits(s) == \A i \in DOMAIN s : IsAsciiDigit(s[i])

\* s without the characters at the positions in P
RECURSIVE Without(_, _)
Without(s, P) ==
    IF Len(s) = 0 THEN <<>>
    ELSE Without(SubSeq(s, 1, Len(s) - 1), P)
             \o (IF Len(s) \in P THEN <<>> ELSE <<s[Len(s)]>>)

StripSign(s) == IF Len(s) > 0 /\ s[1] \in {"-", "+"} THEN Tail(s) ELSE s
IsNegative(s) == Len(s) > 0 /\ s[1] = "-"

NotDecimal == [ok |-> FALSE, val |-> Dec(0, 0)]

\* Decimal::from_str, the digits and the scale being known
DecimalOfDigits(neg, digits, scale) ==
    IF Len(digits) > 0 /\ AllDigits(digits)
    THEN [ok |-> TRUE,
          val |-> Dec(IF neg THEN 0 - DigitsToNat(digits) ELSE DigitsToNat(digits), scale)]
    ELSE NotDecimal

\* Decimal::from_str, the sign being stripped and the decimal points located
DecimalOfBody(neg, body, dots) ==
    IF Cardinality(dots) > 1 THEN NotDecimal
    ELSE DecimalOfDigits(neg, Without(body, dots),
                         IF dots = {} THEN 0 ELSE Len(body) - Min(dots))

\* Decimal::from_str: [sign] digits [. digits]
DecimalFromStr(s) == DecimalOfBody(IsNegative(s), StripSign(s), Positions(StripSign(s), "."))

\* Decimal::from_scientific, base and exponent being parsed: the scale is moved by
\* the exponent
ScientificScaled(base, neg, n) ==
    [ok |-> TRUE,
     val |-> IF neg THEN Dec(base.m, base.e + n)
             ELSE IF n <= base.e THEN Dec(base.m, base.e - n)
             ELSE DecNormalize(Dec(base.m * Pow10(n), base.e))]

\* Decimal::from_scientific, the string being split at its first 'e'
ScientificOfParts(base, exp) ==
    IF base.ok /\ Len(StripSign(exp)) > 0 /\ AllDigits(StripSign(exp))
    THEN ScientificScaled(base.val, IsNegative(exp), DigitsToNat(StripSign(exp)))
    ELSE NotDecimal

ScientificSplit(s, es) ==
    IF es = {} THEN NotDecimal
    ELSE ScientificOfParts(DecimalFromStr(SubSeq(s, 1, Min(es) - 1)), Suffix(s, Min(es) + 1))

\* Decimal::from_scientific: base 'e' exponent
DecimalFromScientific(s) == ScientificSplit(s, Positions(s, "e"))

Abs(n) == IF n < 0 THEN 0 - n ELSE n

\* f64 values are modelled as exact fractions [n, d] with d > 0: rounding is left out
RECURSIVE Gcd(_, _)
Gcd(a, b) == IF b = 0 THEN a ELSE Gcd(b, a % b)
Frac(n, d) == [n |-> n \div Gcd(Abs(n), d), d |-> d \div Gcd(Abs(n), d)]

(***************************************************************************)
(* ParsingType and ParsingHelper (src/src/parsing.rs).                     *)
(***************************************************************************)
Text(s) == [variant |-> "Text", some |-> TRUE, val |-> s]
Numeric(d) == [variant |-> "Numeric", some |-> TRUE, val |-> d]
FloatingPoint(x) == [variant |-> "FloatingPoint", some |-> TRUE, val |-> x]
DateTypes(dt) == [variant |-> "DateTypes", some |-> TRUE, val |-> dt]
NoneOf(variant) == [variant |-> variant, some |-> FALSE]

\* the vocabulary of empty values
empty_vals == {<<>>, <<"n", "a">>, <<"n", "/", "a">>, <<"n", "o", "n", "e">>,
               <<"n", "u", "l", "l">>, <<"n", "a", "n">>}

ParsingError(ln, s, msg) ==
    [kind |-> "ParsingError", line_num |-> ln, str_to_parse |-> s, err |-> msg]

\* ParsingHelper::parse_numeric, both conversions being given: the scientific one is
\* the fallback
NumericOrError(plain, sci, new_val, ln) ==
    IF plain.ok THEN [kind |-> "Some", val |-> Numeric(plain.val)]
    ELSE IF sci.ok THEN [kind |-> "Some", val |-> Numeric(sci.val)]
    ELSE [kind |-> "Err", err |-> ParsingError(ln, new_val, "numeric")]

\* a parse_numeric whose error reports the lowercased string it tried last
parse_numeric_reporting_lowercase(new_val, ln) ==
    NumericOrError(DecimalFromStr(new_val),
                   DecimalFromScientific(ToAsciiLowercase(new_val)),
                   ToAsciiLowercase(new_val), ln)

\* ParsingHelper::parse_numeric
parse_numeric(new_val, ln) ==
    NumericOrError(DecimalFromStr(new_val),
                   DecimalFromScientific(ToAsciiLowercase(new_val)), new_val, ln)

\* str::parse::<f64>, both readings of the string being given: a plain decimal
\* or a number in scientific notation is the fraction it denotes, the names of
\* the infinities and of NaN are read in any case, anything else is an error
FloatOrError(plain, sci, new_val, ln) ==
    IF plain.ok THEN [kind |-> "Some", val |-> FloatingPoint(Frac(plain.val.m, Pow10(plain.val.e)))]
    ELSE IF sci.ok THEN [kind |-> "Some", val |-> FloatingPoint(Frac(sci.val.m, Pow10(sci.val.e)))]
    ELSE IF ToAsciiLowercase(StripSign(new_val))
                \in {<<"n", "a", "n">>, <<"i", "n", "f">>,
                     <<"i", "n", "f", "i", "n", "i", "t", "y">>}
    THEN [kind |-> "Some",
          val |-> FloatingPoint([special |-> ToAsciiLowercase(new_val)])]
    ELSE [kind |-> "Err", err |-> ParsingError(ln, new_val, "floating point")]

\* ParsingHelper::parse_floating
parse_floating(new_val, ln) ==
    FloatOrError(DecimalFromStr(new_val),
                 DecimalFromScientific(ToAsciiLowercase(new_val)), new_val, ln)

\* the strings "2016-12-DD HH:MM:SS"
IsDecember2016(s) ==
    /\ Len(s) = 19
    /\ SubSeq(s, 1, 8) = <<"2", "0", "1", "6", "-", "1", "2", "-">>
    /\ s[11] = " " /\ s[14] = ":" /\ s[17] = ":"
    /\ \A i \in {9, 10, 12, 13, 15, 16, 18, 19} : IsAsciiDigit(s[i])

\* the seconds since 2016-12-01 00:00:00 of such a string
SecondsOf(s) ==
    (DigitVal(s[9]) * 10 + DigitVal(s[10]) - 1) * 86400
        + (DigitVal(s[12]) * 10 + DigitVal(s[13])) * 3600
        + (DigitVal(s[15]) * 10 + DigitVal(s[16])) * 60
        + DigitVal(s[18]) * 10 + DigitVal(s[19])

\* ParsingHelper::parse_datetime with a date_helper: a full timestamp of December
\* 2016 is read, a string with no date token is an error
parse_datetime(new_val, ln) ==
    IF IsDecember2016(new_val)
    THEN [kind |-> "Some", val |-> DateTypes(SecondsOf(new_val))]
    ELSE [kind |-> "Err", err |-> ParsingError(ln, new_val, "datetime")]

\* a parse_val that compares the raw string with the vocabulary without folding
\* its case
parse_val_case_sensitive(p, new_val, ln) ==
    IF new_val \in empty_vals /\ ~p.parse_empty
    THEN [kind |-> "None"]
    ELSE IF p.values_type = "Text" THEN [kind |-> "Some", val |-> Text(new_val)]
    ELSE parse_numeric(new_val, ln)

\* ParsingHelper::parse_val: Ok(None) is kind "None", Ok(Some(v)) is kind "Some"
parse_val(p, new_val, ln) ==
    IF ToAsciiLowercase(new_val) \in empty_vals /\ ~p.parse_empty
    THEN [kind |-> "None"]
    ELSE IF p.values_type = "Text" THEN [kind |-> "Some", val |-> Text(new_val)]
    ELSE IF p.values_type = "Numeric" THEN parse_numeric(new_val, ln)
    ELSE IF p.values_type = "FloatingPoint" THEN parse_floating(new_val, ln)
    ELSE parse_datetime(new_val, ln)

\* a get_parsing_approach where -N chooses the Numeric domain for every method
get_parsing_approach_numeric_for_all(t, parse_numeric_flag, parse_date) ==
    CASE parse_numeric_flag -> "Numeric"
      [] ~parse_numeric_flag /\ t \in {"Count", "CountUnique", "Mode"} -> "Text"
      [] ~parse_numeric_flag /\ t \in {"Mean", "Median", "Sum"} -> "Numeric"
      [] ~parse_numeric_flag /\ t = "StdDev" -> "FloatingPoint"
      [] ~parse_numeric_flag /\ t \in {"Minimum", "Maximum"} /\ parse_date -> "DateTypes"
      [] ~parse_numeric_flag /\ t = "Range" -> "DateTypes"
      [] ~parse_numeric_flag /\ t \in {"Minimum", "Maximum"} /\ ~parse_date -> "Text"

\* CliConfig::get_parsing_approach: the match arms in their order
get_parsing_approach(t, parse_numeric_flag, parse_date) ==
    CASE t \in {"Count", "CountUnique", "Mode"} -> "Text"
      [] t \in {"Mean", "Median", "Sum"} -> "Numeric"
      [] t = "StdDev" -> "FloatingPoint"
      [] t \in {"Minimum", "Maximum", "Range"} /\ parse_numeric_flag -> "Numeric"
      [] t \in {"Minimum", "Maximum"} /\ ~parse_numeric_flag /\ parse_date -> "DateTypes"
      [] t = "Range" /\ ~parse_numeric_flag -> "DateTypes"
      [] t \in {"Minimum", "Maximum"} /\ ~parse_numeric_flag /\ ~parse_date -> "Text"

\* CliConfig::get_parser: the -N and --infer flags choose the domain, the -e flag
\* switches parse_empty off
get_parser(t, parse_numeric_flag, infer_date, empty_flag) ==
    [values_type |-> get_parsing_approach(t, parse_numeric_flag, infer_date),
     parse_empty |-> ~empty_flag]

(***************************************************************************)
(* Maps with a growing domain (HashMap, BTreeMap).                         *)
(***************************************************************************)
EmptyMap == [k \in {} |-> 0]
Get(f, k, default) == IF k \in DOMAIN f THEN f[k] ELSE default
Put(f, k, v) == [x \in DOMAIN f \cup {k} |-> IF x = k THEN v ELSE f[x]]

\* Decimal::to_string: the mantissa with a point e digits from the right
RECURSIVE ZeroPad(_, _)
ZeroPad(s, n) == IF Len(s) >= n THEN s ELSE ZeroPad(<<"0">> \o s, n)

DecToString(d) ==
    LET mag == IF d.m < 0 THEN 0 - d.m ELSE d.m
        digits == ZeroPad(UsizeToString(mag), d.e + 1)
        whole == SubSeq(digits, 1, Len(digits) - d.e)
        frac == Suffix(digits, Len(digits) - d.e + 1)
    IN  (IF d.m < 0 THEN <<"-">> ELSE <<>>)
            \o whole \o (IF d.e > 0 THEN <<".">> \o frac ELSE <<>>)

\* Decimal::checked_sub: the operands are aligned to the larger scale
DecSub(a, b) ==
    Dec(Rescale(a, MaxOf(a.e, b.e)) - Rescale(b, MaxOf(a.e, b.e)), MaxOf(a.e, b.e))

\* the largest scale of a Decimal
MAX_PRECISION == 28

\* a sequence of decimal digits plus one, with carry
RECURSIVE IncDigits(_)
IncDigits(digits) ==
    IF Len(digits) = 0 THEN <<"1">>
    ELSE IF digits[Len(digits)] = "9"
    THEN IncDigits(SubSeq(digits, 1, Len(digits) - 1)) \o <<"0">>
    ELSE SubSeq(digits, 1, Len(digits) - 1)
            \o <<DigitChars[DigitVal(digits[Len(digits)]) + 2]>>

\* the long division of Decimal::checked_div: one more digit of the quotient for
\* as long as a remainder is left and the scale is below MAX_PRECISION; a
\* remainder left at MAX_PRECISION rounds the last digit
RECURSIVE DivDigits(_, _, _, _)
DivDigits(digits, rem, divisor, scale) ==
    IF rem = 0 THEN [digits |-> digits, e |-> scale]
    ELSE IF scale >= MAX_PRECISION
    THEN [digits |-> IF 2 * rem >= divisor THEN IncDigits(digits) ELSE digits, e |-> scale]
    ELSE DivDigits(Append(digits, DigitChars[((rem * 10) \div divisor) + 1]),
                   (rem * 10) % divisor, divisor, scale + 1)

\* Decimal::to_string of a quotient: its digits with a point e digits from the right
QuotientToString(neg, q) ==
    (IF neg /\ \E i \in DOMAIN q.digits : q.digits[i] # "0" THEN <<"-">> ELSE <<>>)
        \o SubSeq(ZeroPad(q.digits, q.e + 1), 1, Len(ZeroPad(q.digits, q.e + 1)) - q.e)
        \o (IF q.e > 0
            THEN <<".">> \o Suffix(ZeroPad(q.digits, q.e + 1),
                                   Len(ZeroPad(q.digits, q.e + 1)) - q.e + 1)
            ELSE <<>>)

\* Decimal::checked_div followed by to_string, for a divisor whose scale is not
\* above the dividend's: the quotient starts at the difference of the scales
DecDivToString(a, b) ==
    QuotientToString((a.m < 0) # (b.m < 0),
                     DivDigits(UsizeToString(Abs(a.m) \div Abs(b.m)), Abs(a.m) % Abs(b.m),
                               Abs(b.m), a.e - b.e))

(***************************************************************************)
(* The accumulator family (src/src/aggfunc.rs).                            *)
(***************************************************************************)
IsSome(v, variant) == v.variant = variant /\ v.some

\* Count
CountNew(parsed_val) == [val |-> 1]
\* a Count whose update forgets the increment
CountUpdateNoIncrement(self, parsed_val) == self
CountUpdate(self, parsed_val) == [self EXCEPT !.val = @ + 1]
CountToOutput(self) == UsizeToString(self.val)

\* Sum
SumNew(parsed_val) ==
    IF IsSome(parsed_val, "Numeric") THEN [cur_total |-> parsed_val.val]
    ELSE [cur_total |-> Dec(0, 0)]
\* a Sum whose update keeps the last value instead of the total
SumUpdateOverwrite(self, parsed_val) ==
    [self EXCEPT !.cur_total =
        IF IsSome(parsed_val, "Numeric") THEN parsed_val.val ELSE Dec(0, 0)]

SumUpdate(self, parsed_val) ==
    [self EXCEPT !.cur_total =
        DecAdd(@, IF IsSome(parsed_val, "Numeric") THEN parsed_val.val ELSE Dec(0, 0))]
SumToOutput(self) == DecToString(self.cur_total)

\* Mode
ModeNew(parsed_val) ==
    IF IsSome(parsed_val, "Text")
    THEN [values |-> Put(EmptyMap, parsed_val.val, 1), max_count |-> 1,
          max_val |-> parsed_val.val]
    ELSE [values |-> EmptyMap, max_count |-> 0, max_val |-> <<>>]

\* a Mode whose update replaces the stored mode on an equal count
ModeUpdateOnTie(self, parsed_val) ==
    LET entry == IF IsSome(parsed_val, "Text") THEN parsed_val.val ELSE <<>>
        new_count == Get(self.values, entry, 0) + 1
        counted == Put(self.values, entry, Get(self.values, entry, 0) + 1)
    IN  IF new_count >= self.max_count
        THEN [values |-> counted, max_count |-> new_count, max_val |-> entry]
        ELSE [self EXCEPT !.values = counted]

ModeUpdate(self, parsed_val) ==
    LET entry == IF IsSome(parsed_val, "Text") THEN parsed_val.val ELSE <<>>
        new_count == Get(self.values, entry, 0) + 1
        counted == Put(self.values, entry, Get(self.values, entry, 0) + 1)
    IN  IF new_count > self.max_count
        THEN [values |-> counted, max_count |-> new_count, max_val |-> entry]
        ELSE [self EXCEPT !.values = counted]

ModeToOutput(self) == self.max_val

\* Median: values is a BTreeMap keyed by Decimal, whose keys compare by value
MedianKey(values, num) ==
    IF \E k \in DOMAIN values : DecEq(k, num)
    THEN CHOOSE k \in DOMAIN values : DecEq(k, num)
    ELSE num

MedianNew(parsed_val) ==
    IF IsSome(parsed_val, "Numeric")
    THEN [values |-> Put(EmptyMap, parsed_val.val, 1), num |-> 1]
    ELSE [values |-> EmptyMap, num |-> 0]

MedianUpdate(self, parsed_val) ==
    LET num == IF IsSome(parsed_val, "Numeric") THEN parsed_val.val ELSE Dec(0, 0)
        key == MedianKey(self.values, num)
    IN  [values |-> Put(self.values, key, Get(self.values, key, 0) + 1),
         num |-> self.num + 1]

\* the keys of a BTreeMap in iteration (ascending) order
RECURSIVE SortedKeys(_)
SortedKeys(K) ==
    IF K = {} THEN <<>>
    ELSE LET least == CHOOSE k \in K : \A o \in K : ~DecLt(o, k)
         IN  <<least>> \o SortedKeys(K \ {least})

\* the while loop of Median::compute; i is the number of entries taken from the
\* iterator; panic is the unwrap of an exhausted iterator
RECURSIVE MedianWalk(_, _, _, _, _)
MedianWalk(self, keys, i, cur_count, cur_val) ==
    IF 2 * cur_count < self.num
    THEN IF i + 1 > Len(keys)
         THEN [panic |-> TRUE, i |-> i, cur_count |-> cur_count, cur_val |-> cur_val]
         ELSE MedianWalk(self, keys, i + 1, cur_count + self.values[keys[i + 1]],
                         keys[i + 1])
    ELSE [panic |-> FALSE, i |-> i, cur_count |-> cur_count, cur_val |-> cur_val]

\* a compute that returns the entry where the walk stopped, whatever the parity
MedianAfterWalkNoMean(self, keys, w) ==
    IF w.panic THEN [panic |-> TRUE, val |-> Dec(0, 0)]
    ELSE [panic |-> FALSE, val |-> w.cur_val]

\* Median::compute after the loop: the mean of two entries when the walk stopped
\* exactly half way through an even number of values
MedianAfterWalk(self, keys, w) ==
    IF w.panic THEN [panic |-> TRUE, val |-> Dec(0, 0)]
    ELSE IF self.num % 2 = 0 /\ 2 * w.cur_count = self.num
    THEN IF w.i + 1 > Len(keys) THEN [panic |-> TRUE, val |-> Dec(0, 0)]
         ELSE [panic |-> FALSE, val |-> DecHalve(DecAdd(w.cur_val, keys[w.i + 1]))]
    ELSE [panic |-> FALSE, val |-> w.cur_val]

MedianOver(self, keys) ==
    MedianAfterWalk(self, keys, MedianWalk(self, keys, 0, 0, Dec(0, 0)))

\* Median::compute
MedianCompute(self) == MedianOver(self, SortedKeys(DOMAIN self.values))

MedianToOutput(self) == DecToString(MedianCompute(self).val)

\* the order of u8 on digits and letters: digits, then upper case, then lower case
AsciiOrder == DigitChars \o UpperChars \o LowerChars
CharCode(c) == CHOOSE i \in DOMAIN AsciiOrder : AsciiOrder[i] = c

\* String's PartialOrd: lexicographic on the bytes
RECURSIVE StrLt(_, _)
StrLt(a, b) ==
    IF Len(b) = 0 THEN FALSE
    ELSE IF Len(a) = 0 THEN TRUE
    ELSE IF a[1] = b[1] THEN StrLt(Tail(a), Tail(b))
    ELSE CharCode(a[1]) < CharCode(b[1])

\* `<` on the payloads of two ParsingType values of one variant; a NaiveDateTime
\* is the number of seconds since 2016-12-01 00:00:00
PayloadLt(variant, a, b) ==
    CASE variant = "Numeric" -> DecLt(a, b)
      [] variant = "DateTypes" -> a < b
      [] variant = "Text" -> StrLt(a, b)

TwoDigits(n) == ZeroPad(UsizeToString(n), 2)

\* NaiveDateTime::format(DATEFORMAT), "%Y-%m-%d %H:%M:%S", for a time in December 2016
DateFormat(dt) ==
    <<"2", "0", "1", "6", "-", "1", "2", "-">> \o TwoDigits(dt \div 86400 + 1) \o <<" ">>
        \o TwoDigits((dt % 86400) \div 3600) \o <<":">>
        \o TwoDigits((dt % 3600) \div 60) \o <<":">> \o TwoDigits(dt % 60)

\* Range
RangeNew(parsed_val) ==
    IF IsSome(parsed_val, "Numeric") \/ IsSome(parsed_val, "DateTypes")
    THEN [min_val |-> parsed_val, max_val |-> parsed_val]
    ELSE [min_val |-> NoneOf("Numeric"), max_val |-> NoneOf("Numeric")]

\* a Range that tests the minimum before the maximum and the maximum only in
\* the else branch, against the old minimum
RangeUpdateMaxBelowMin(self, parsed_val) ==
    IF /\ self.min_val.some /\ self.max_val.some /\ parsed_val.some
       /\ self.min_val.variant = parsed_val.variant
       /\ self.max_val.variant = parsed_val.variant
       /\ parsed_val.variant \in {"Numeric", "DateTypes"}
    THEN IF PayloadLt(parsed_val.variant, parsed_val.val, self.min_val.val)
         THEN [self EXCEPT !.min_val = parsed_val]
         ELSE IF PayloadLt(parsed_val.variant, self.min_val.val, parsed_val.val)
         THEN [self EXCEPT !.max_val = parsed_val]
         ELSE self
    ELSE self

RangeUpdate(self, parsed_val) ==
    IF /\ self.min_val.some /\ self.max_val.some /\ parsed_val.some
       /\ self.min_val.variant = parsed_val.variant
       /\ self.max_val.variant = parsed_val.variant
       /\ parsed_val.variant \in {"Numeric", "DateTypes"}
    THEN IF PayloadLt(parsed_val.variant, self.max_val.val, parsed_val.val)
         THEN [self EXCEPT !.max_val = parsed_val]
         ELSE IF PayloadLt(parsed_val.variant, parsed_val.val, self.min_val.val)
         THEN [self EXCEPT !.min_val = parsed_val]
         ELSE self
    ELSE self

RangeToOutput(self) ==
    IF IsSome(self.min_val, "Numeric") /\ IsSome(self.max_val, "Numeric")
    THEN DecToString(DecSub(self.max_val.val, self.min_val.val))
    ELSE IF IsSome(self.min_val, "DateTypes") /\ IsSome(self.max_val, "DateTypes")
    THEN DecDivToString(Dec(self.max_val.val - self.min_val.val, 1), Dec(86400, 1))
    ELSE <<>>

\* the to_output shared by Maximum and Minimum
ExtremeToOutput(v) ==
    IF ~v.some THEN <<>>
    ELSE CASE v.variant = "Numeric" -> DecToString(v.val)
           [] v.variant = "DateTypes" -> DateFormat(v.val)
           [] v.variant = "Text" -> v.val

\* Maximum
MaximumNew(parsed_val) ==
    IF parsed_val.some /\ parsed_val.variant \in {"Numeric", "DateTypes", "Text"}
    THEN [max_val |-> parsed_val]
    ELSE [max_val |-> NoneOf("Numeric")]

\* a Maximum that also replaces the stored value when the new one is not smaller
MaximumUpdateLast(self, parsed_val) ==
    IF /\ self.max_val.some /\ parsed_val.some
       /\ self.max_val.variant = parsed_val.variant
       /\ parsed_val.variant \in {"Numeric", "DateTypes", "Text"}
       /\ ~PayloadLt(parsed_val.variant, parsed_val.val, self.max_val.val)
    THEN [max_val |-> parsed_val]
    ELSE self

MaximumUpdate(self, parsed_val) ==
    IF /\ self.max_val.some /\ parsed_val.some
       /\ self.max_val.variant = parsed_val.variant
       /\ parsed_val.variant \in {"Numeric", "DateTypes", "Text"}
       /\ PayloadLt(parsed_val.variant, self.max_val.val, parsed_val.val)
    THEN [max_val |-> parsed_val]
    ELSE self

MaximumToOutput(self) == ExtremeToOutput(self.max_val)

\* Minimum
MinimumNew(parsed_val) ==
    IF parsed_val.some /\ parsed_val.variant \in {"Numeric", "DateTypes", "Text"}
    THEN [min_val |-> parsed_val]
    ELSE [min_val |-> NoneOf("Numeric")]

MinimumUpdate(self, parsed_val) ==
    IF /\ self.min_val.some /\ parsed_val.some
       /\ self.min_val.variant = parsed_val.variant
       /\ parsed_val.variant \in {"Numeric", "DateTypes", "Text"}
       /\ PayloadLt(parsed_val.variant, parsed_val.val, self.min_val.val)
    THEN [min_val |-> parsed_val]
    ELSE self

MinimumToOutput(self) == ExtremeToOutput(self.min_val)

\* CountUnique
CountUniqueNew(parsed_val) ==
    IF IsSome(parsed_val, "Text") THEN [vals |-> {parsed_val.val}] ELSE [vals |-> {<<>>}]

\* a CountUnique that keeps a list of the values instead of a set
CountUniqueUpdateList(self, parsed_val) ==
    [vals |-> self.vals \cup {parsed_val.val \o <<"#">> \o UsizeToString(Cardinality(self.vals))}]

CountUniqueUpdate(self, parsed_val) ==
    [vals |-> self.vals \cup {IF IsSome(parsed_val, "Text") THEN parsed_val.val ELSE <<>>}]

CountUniqueToOutput(self) == UsizeToString(Cardinality(self.vals))

\* Mean
MeanNew(parsed_val) ==
    IF IsSome(parsed_val, "Numeric") THEN [num |-> 1, cur_total |-> parsed_val.val]
    ELSE [num |-> 0, cur_total |-> Dec(0, 0)]

MeanUpdate(self, parsed_val) ==
    [num |-> self.num + 1,
     cur_total |-> DecAdd(self.cur_total,
                          IF IsSome(parsed_val, "Numeric") THEN parsed_val.val ELSE Dec(0, 0))]

\* Mean::compute then to_string; checked_div by zero is None, which unwrap turns
\* into a panic
MeanPanics(self) == self.num = 0
MeanToOutput(self) ==
    IF MeanPanics(self) THEN <<>> ELSE DecDivToString(self.cur_total, Dec(self.num, 0))

FracAdd(a, b) == Frac(a.n * b.d + b.n * a.d, a.d * b.d)
FracSub(a, b) == Frac(a.n * b.d - b.n * a.d, a.d * b.d)
FracMul(a, b) == Frac(a.n * b.n, a.d * b.d)
FracDivNat(a, k) == Frac(a.n, a.d * k)

\* StdDev
StdDevNew(parsed_val) ==
    IF IsSome(parsed_val, "FloatingPoint")
    THEN [q |-> Frac(0, 1), m |-> parsed_val.val, num_records |-> 1]
    ELSE [q |-> Frac(0, 1), m |-> Frac(0, 1), num_records |-> 0]

\* StdDev::update with num_records already incremented to n
StdDevAbsorb(self, num, n) ==
    [q |-> FracAdd(self.q,
                   FracDivNat(FracMul(Frac(n - 1, 1),
                                      FracMul(FracSub(num, self.m), FracSub(num, self.m))), n)),
     m |-> FracAdd(self.m, FracDivNat(FracSub(num, self.m), n)),
     num_records |-> n]

\* a StdDev whose update leaves the counter alone
StdDevUpdateNoCount(self, parsed_val) ==
    IF IsSome(parsed_val, "FloatingPoint")
    THEN [StdDevAbsorb(self, parsed_val.val, self.num_records + 1)
            EXCEPT !.num_records = self.num_records]
    ELSE self

StdDevUpdate(self, parsed_val) ==
    IF IsSome(parsed_val, "FloatingPoint")
    THEN StdDevAbsorb(self, parsed_val.val, self.num_records + 1)
    ELSE self

\* StdDev::compute: None below two records, else the root of the variance, which
\* is kept as the variance it is the root of
StdDevCompute(self) ==
    IF self.num_records <= 1 THEN [some |-> FALSE]
    ELSE [some |-> TRUE, variance |-> FracDivNat(self.q, self.num_records - 1)]

\* StdDev::to_output: the empty string for None; the digits of the root are not
\* computed, the output names the variance
StdDevRender(stdev) ==
    IF ~stdev.some THEN <<>>
    ELSE <<"s", "q", "r", "t", "(">> \o UsizeToString(stdev.variance.n) \o <<"/">>
            \o UsizeToString(stdev.variance.d) \o <<")">>
StdDevToOutput(self) == StdDevRender(StdDevCompute(self))

\* AggregationMethod::new / update / to_output of the chosen method T
New(t, parsed_val) ==
    CASE t = "Count" -> CountNew(parsed_val)
      [] t = "Sum" -> SumNew(parsed_val)
      [] t = "Mode" -> ModeNew(parsed_val)
      [] t = "Median" -> MedianNew(parsed_val)
      [] t = "Mean" -> MeanNew(parsed_val)
      [] t = "Range" -> RangeNew(parsed_val)
      [] t = "Maximum" -> MaximumNew(parsed_val)
      [] t = "Minimum" -> MinimumNew(parsed_val)
      [] t = "CountUnique" -> CountUniqueNew(parsed_val)
      [] t = "StdDev" -> StdDevNew(parsed_val)

Update(t, self, parsed_val) ==
    CASE t = "Count" -> CountUpdate(self, parsed_val)
      [] t = "Sum" -> SumUpdate(self, parsed_val)
      [] t = "Mode" -> ModeUpdate(self, parsed_val)
      [] t = "Median" -> MedianUpdate(self, parsed_val)
      [] t = "Mean" -> MeanUpdate(self, parsed_val)
      [] t = "Range" -> RangeUpdate(self, parsed_val)
      [] t = "Maximum" -> MaximumUpdate(self, parsed_val)
      [] t = "Minimum" -> MinimumUpdate(self, parsed_val)
      [] t = "CountUnique" -> CountUniqueUpdate(self, parsed_val)
      [] t = "StdDev" -> StdDevUpdate(self, parsed_val)

ToOutput(t, self) ==
    CASE t = "Count" -> CountToOutput(self)
      [] t = "Sum" -> SumToOutput(self)
      [] t = "Mode" -> ModeToOutput(self)
      [] t = "Median" -> MedianToOutput(self)
      [] t = "Mean" -> MeanToOutput(self)
      [] t = "Range" -> RangeToOutput(self)
      [] t = "Maximum" -> MaximumToOutput(self)
      [] t = "Minimum" -> MinimumToOutput(self)
      [] t = "CountUnique" -> CountUniqueToOutput(self)
      [] t = "StdDev" -> StdDevToOutput(self)

(***************************************************************************)
(* The Aggregator (src/src/aggregation.rs).                                *)
(***************************************************************************)
FIELD_SEPARATOR == <<"_", "<", "s", "e", "p", ">", "_">>

TOTAL == <<"t", "o", "t", "a", "l">>

\* [&str]::join
RECURSIVE Join(_, _)
Join(strs, sep) ==
    IF Len(strs) = 0 THEN <<>>
    ELSE IF Len(strs) = 1 THEN strs[1]
    ELSE strs[1] \o sep \o Join(Tail(strs), sep)

\* a get_colname that joins the fields whatever their number: the empty string
\* for an empty list
get_colname_no_total(cols, record) ==
    Join([i \in DOMAIN cols |-> record[cols[i] + 1]], FIELD_SEPARATOR)

\* Aggregator::get_colname
get_colname(cols, record) ==
    IF Len(cols) = 0 THEN TOTAL
    ELSE Join([i \in DOMAIN cols |-> record[cols[i] + 1]], FIELD_SEPARATOR)

\* an update_aggregations that builds a fresh accumulator for every record
update_aggregations_always_new(aggs, indexname, columnname, parsed_val) ==
    [aggs |-> Put(aggs, <<indexname, columnname>>, New(aggtype, parsed_val)),
     called |-> "new"]

\* Aggregator::update_aggregations; called names the accumulator method it invoked
update_aggregations(aggs, indexname, columnname, parsed_val) ==
    LET cell == <<indexname, columnname>>
    IN  IF cell \in DOMAIN aggs
        THEN [aggs |-> [aggs EXCEPT ![cell] = Update(aggtype, @, parsed_val)],
              called |-> "update"]
        ELSE [aggs |-> Put(aggs, cell, New(aggtype, parsed_val)), called |-> "new"]

\* an add_record that also aggregates a skipped value, as the empty value of the
\* configured domain
add_record_keyed_aggregating_none(aggs, idxs, cols, indexnames, columnnames, parsed_val) ==
    IF parsed_val.kind = "Err"
    THEN [indexes |-> idxs \cup {indexnames}, columns |-> cols \cup {columnnames},
          upd |-> [aggs |-> aggs, called |-> "none"], parsed |-> parsed_val.kind,
          ret |-> parsed_val.err]
    ELSE [indexes |-> idxs \cup {indexnames}, columns |-> cols \cup {columnnames},
          upd |-> update_aggregations(aggs, indexnames, columnnames,
                                      IF parsed_val.kind = "Some" THEN parsed_val.val
                                      ELSE NoneOf(parser.values_type)),
          parsed |-> parsed_val.kind, ret |-> [kind |-> "Ok"]]

\* an add_record that puts an accumulator into the cell before it returns the
\* parser's error
add_record_keyed_aggregating_error(aggs, idxs, cols, indexnames, columnnames, parsed_val) ==
    IF parsed_val.kind = "None"
    THEN [indexes |-> idxs \cup {indexnames}, columns |-> cols \cup {columnnames},
          upd |-> [aggs |-> aggs, called |-> "none"], parsed |-> parsed_val.kind,
          ret |-> [kind |-> "Ok"]]
    ELSE [indexes |-> idxs \cup {indexnames}, columns |-> cols \cup {columnnames},
          upd |-> update_aggregations(aggs, indexnames, columnnames,
                                      IF parsed_val.kind = "Some" THEN parsed_val.val
                                      ELSE NoneOf(parser.values_type)),
          parsed |-> parsed_val.kind,
          ret |-> IF parsed_val.kind = "Err" THEN parsed_val.err ELSE [kind |-> "Ok"]]

\* Aggregator::add_record from line 182 on, the keys and the parser's answer being
\* given: the keys are inserted, then `?` returns the parser's error, then a parsed
\* value is aggregated
add_record_keyed(aggs, idxs, cols, indexnames, columnnames, parsed_val) ==
    IF parsed_val.kind = "Some"
    THEN [indexes |-> idxs \cup {indexnames}, columns |-> cols \cup {columnnames},
          upd |-> update_aggregations(aggs, indexnames, columnnames, parsed_val.val),
          parsed |-> parsed_val.kind, ret |-> [kind |-> "Ok"]]
    ELSE [indexes |-> idxs \cup {indexnames}, columns |-> cols \cup {columnnames},
          upd |-> [aggs |-> aggs, called |-> "none"], parsed |-> parsed_val.kind,
          ret |-> IF parsed_val.kind = "Err" THEN parsed_val.err ELSE [kind |-> "Ok"]]

\* Aggregator::add_record: the aggregator's fields after the call, what the call
\* returned, and the accumulator method it invoked ("none" when it invoked none)
add_record(aggs, idxs, cols, record, ln) ==
    add_record_keyed(aggs, idxs, cols, get_colname(index_cols, record),
                     get_colname(column_cols, record),
                     parse_val(parser, record[values_col + 1], ln))

\* Aggregator::parse_writing
parse_writing(aggs, row, col) ==
    IF <<row, col>> \in DOMAIN aggs THEN ToOutput(aggtype, aggs[<<row, col>>]) ELSE <<>>

\* the orders in which a HashSet may be iterated
Orderings(S) ==
    {o \in [1..Cardinality(S) -> S] : \A i, j \in 1..Cardinality(S) : o[i] = o[j] => i = j}

\* a write_results that leaves out the field of a cell that does not exist
write_results_dense(aggs, rowOrder, colOrder) ==
    [written |-> <<(<< <<>> >> \o colOrder)>>
                    \o [r \in DOMAIN rowOrder |->
                           <<rowOrder[r]>>
                               \o SelectSeq([c \in DOMAIN colOrder |->
                                                parse_writing(aggs, rowOrder[r], colOrder[c])],
                                            LAMBDA field : field # <<>>)],
     ret |-> [kind |-> "Ok"]]

\* Aggregator::write_results, the sets being iterated in the orders rowOrder and colOrder
write_results(aggs, rowOrder, colOrder) ==
    [written |-> <<(<< <<>> >> \o colOrder)>>
                    \o [r \in DOMAIN rowOrder |->
                           <<rowOrder[r]>> \o [c \in DOMAIN colOrder |->
                               parse_writing(aggs, rowOrder[r], colOrder[c])]],
     ret |-> [kind |-> "Ok"]]

(***************************************************************************)
(* A run of the pivot engine: CliConfig::run_config after validate_columns.*)
(* Records have three fields: a row field, a column field and the value.   *)
(***************************************************************************)
RowFields == {<<"a">>, <<"b">>}
ColFields == {<<"x">>, <<"y">>}
ValueFields == {<<"N", "A">>, <<"5">>, <<"1", ".", "5">>, <<"x">>}
Records == {<<r, c, v>> : r \in RowFields, c \in ColFields, v \in ValueFields}

EngineAggTypes == {"Count", "Sum"}

\* the vocabulary of skipped values, written out with its case variants
Vocabulary == {<<>>, <<"n", "a">>, <<"n", "/", "a">>, <<"n", "o", "n", "e">>,
               <<"n", "u", "l", "l">>, <<"n", "a", "n">>}
IsVocabularyWord(raw) ==
    \E w \in Vocabulary :
        /\ Len(raw) = Len(w)
        /\ \A i \in DOMAIN w :
              \/ raw[i] = w[i]
              \/ \E k \in DOMAIN LowerChars : LowerChars[k] = w[i] /\ UpperChars[k] = raw[i]

\* empty-skipping is enabled when the parser was built with the -e flag
SkippingEnabled == ~parser.parse_empty
IsSkipped(raw) == SkippingEnabled /\ IsVocabularyWord(raw)

NoCall == [op |-> "none"]
NoResult == [kind |-> "none"]

IdleAcc == /\ acc = [kind |-> "none"]
           /\ fed = <<>>

\* run_config is entered with the field selections of the configuration; the
\* command line of main.rs plays no part
NoArgs == [kind |-> "none"]
NoneSeen == [rows |-> <<>>, cols |-> <<>>]

InitEngine ==
    /\ pc = "aggregate"
    /\ aggtype \in EngineAggTypes
    /\ \E empty_flag \in BOOLEAN : parser = get_parser(aggtype, FALSE, FALSE, empty_flag)
    /\ index_cols \in {<<>>, <<0>>, <<0, 1>>}
    /\ column_cols \in {<<>>, <<1>>}
    /\ values_col = 2
    /\ aggregations = EmptyMap
    /\ indexes = {}
    /\ columns = {}
    /\ line_num = 0
    /\ result = NoResult
    /\ output = <<>>
    /\ lastCall = NoCall
    /\ calls = EmptyMap
    /\ nonskipped = EmptyMap
    /\ nskipped = 0
    /\ raws = <<>>
    /\ IdleAcc
    /\ arg_matches = NoArgs
    /\ first_seen = NoneSeen

\* the history of one add_record call
Record(record, ln, r) ==
    LET cell == <<get_colname(index_cols, record), get_colname(column_cols, record)>>
        str_val == record[values_col + 1]
    IN  /\ lastCall' = [op |-> "add_record", cell |-> cell, str_val |-> str_val,
                        line_num |-> ln, parsed |-> r.parsed, ret |-> r.ret]
        /\ calls' = IF r.upd.called = "none" THEN calls
                    ELSE Put(calls, cell, Append(Get(calls, cell, <<>>), r.upd.called))
        /\ nonskipped' = IF IsSkipped(str_val) THEN nonskipped
                         ELSE Put(nonskipped, cell, Get(nonskipped, cell, 0) + 1)
        /\ nskipped' = IF IsSkipped(str_val) THEN nskipped + 1 ELSE nskipped
        /\ first_seen' = [rows |-> IF cell[1] \in r.indexes \ indexes
                                    THEN Append(first_seen.rows, cell[1])
                                    ELSE first_seen.rows,
                          cols |-> IF cell[2] \in r.columns \ columns
                                    THEN Append(first_seen.cols, cell[2])
                                    ELSE first_seen.cols]

\* a loop that drops the error of add_record and goes on to the next record
AggregateRecordIgnoringError ==
    /\ pc = "aggregate"
    /\ line_num < MaxRecords
    /\ \E record \in Records :
          \E r \in {add_record(aggregations, indexes, columns, record, line_num)} :
              /\ aggregations' = r.upd.aggs
              /\ indexes' = r.indexes
              /\ columns' = r.columns
              /\ Record(record, line_num, r)
              /\ line_num' = line_num + 1
              /\ UNCHANGED <<pc, result>>
    /\ UNCHANGED <<parser, aggtype, index_cols, column_cols, values_col, output, raws,
                   acc, fed,
                   arg_matches>>

\* one iteration of the loop of Aggregator::aggregate_from_file: the next record is
\* read and added; an error ends run_config before write_results
AggregateRecord ==
    /\ pc = "aggregate"
    /\ line_num < MaxRecords
    /\ \E record \in Records :
          \E r \in {add_record(aggregations, indexes, columns, record, line_num)} :
              /\ aggregations' = r.upd.aggs
              /\ indexes' = r.indexes
              /\ columns' = r.columns
              /\ Record(record, line_num, r)
              /\ IF r.ret.kind = "Ok"
                 THEN /\ line_num' = line_num + 1
                      /\ UNCHANGED <<pc, result>>
                 ELSE /\ pc' = "error"
                      /\ result' = r.ret
                      /\ UNCHANGED line_num
    /\ UNCHANGED <<parser, aggtype, index_cols, column_cols, values_col, output, raws,
                   acc, fed,
                   arg_matches>>

\* the reader fails on a record (`result?`): run_config returns the csv error
ReaderError ==
    /\ pc = "aggregate"
    /\ pc' = "error"
    /\ result' = [kind |-> "CsvError"]
    /\ UNCHANGED <<parser, aggtype, index_cols, column_cols, values_col, aggregations,
                   indexes, columns, line_num, output, lastCall, calls, nonskipped,
                   nskipped, raws, acc, fed,
                   arg_matches, first_seen>>

\* the reader is exhausted: aggregate_from_file returns Ok and run_config calls
\* write_results
FinishRun ==
    /\ pc = "aggregate"
    /\ \E rowOrder \in Orderings(indexes), colOrder \in Orderings(columns) :
          \E w \in {write_results(aggregations, rowOrder, colOrder)} :
              /\ output' = w.written
              /\ result' = w.ret
    /\ pc' = "done"
    /\ lastCall' = [op |-> "write_results"]
    /\ UNCHANGED <<parser, aggtype, index_cols, column_cols, values_col, aggregations,
                   indexes, columns, line_num, calls, nonskipped, nskipped, raws,
                   acc, fed,
                   arg_matches, first_seen>>

Init == InitEngine

Next == AggregateRecord \/ ReaderError \/ FinishRun

Spec == Init /\ [][Next]_vars

(***************************************************************************)
(* The command line: agg_from_reader of main.rs once the header row is     *)
(* read.  get_aggregator resolves the field selections and the ordering    *)
(* flags, then the records are aggregated and the grid is written.         *)
(***************************************************************************)
Headers == <<<<"r">>, <<"c">>, <<"v">>>>   \* the header row of the file of Records

InvalidConfiguration(msg) == [kind |-> "InvalidConfiguration", msg |-> msg]

IsQuote(c) == c \in {"'", "\""}

\* str::trim, over the whitespace of the selections: the space
RECURSIVE TrimStart(_)
TrimStart(s) == IF s # <<>> /\ Head(s) = " " THEN TrimStart(Tail(s)) ELSE s

RECURSIVE TrimEnd(_)
TrimEnd(s) ==
    IF s # <<>> /\ s[Len(s)] = " " THEN TrimEnd(SubSeq(s, 1, Len(s) - 1)) ELSE s

Trim(s) == TrimEnd(TrimStart(s))

\* str::parse::<usize>: digits after an optional plus sign (selections are far
\* shorter than the twenty digits of usize::MAX)
ParseUsize(s) ==
    LET digits == IF s # <<>> /\ Head(s) = "+" THEN Tail(s) ELSE s
    IN  IF digits # <<>> /\ AllDigits(digits)
        THEN [kind |-> "Ok", val |-> DigitsToNat(digits)]
        ELSE [kind |-> "Err"]

\* CsvSettings::get_numeric_index
get_numeric_index(colname) ==
    LET parsed_str == Trim(colname)
    IN  IF parsed_str = <<>> THEN [kind |-> "None"]
        ELSE IF ~AllDigits(parsed_str) THEN [kind |-> "None"]
        ELSE [kind |-> "Some", val |-> DigitsToNat(parsed_str)]

\* CsvSettings::find_index_from_expected: the field after expected_order
\* earlier fields of the same name
find_index_from_expected(expected_header, expected_order, headers) ==
    LET found == {i \in DOMAIN headers :
                     /\ headers[i] = expected_header
                     /\ Cardinality({j \in 1..(i - 1) : headers[j] = expected_header})
                            = expected_order}
    IN  IF found # {}
        THEN [kind |-> "Ok", val |-> (CHOOSE i \in found : TRUE) - 1]
        ELSE [kind |-> "Err", err |-> InvalidConfiguration("Could not find in header row")]

\* the loop of get_string_index over the characters of the selection;
\* quote_char is "None" outside quotes
RECURSIVE StringIndexLoop(_, _, _, _, _)
StringIndexLoop(chars, quote_char, in_brackets, expected_header, expected_order) ==
    IF chars = <<>>
    THEN [expected_header |-> expected_header, expected_order |-> expected_order]
    ELSE IF quote_char = "None"
    THEN IF in_brackets
         THEN StringIndexLoop(Tail(chars), quote_char, in_brackets, expected_header,
                              IF Head(chars) # "]"
                              THEN Append(expected_order, Head(chars))
                              ELSE expected_order)
         ELSE IF IsQuote(Head(chars))
         THEN StringIndexLoop(Tail(chars), Head(chars), in_brackets, expected_header,
                              expected_order)
         ELSE IF Head(chars) # "["
         THEN StringIndexLoop(Tail(chars), quote_char, in_brackets,
                              Append(expected_header, Head(chars)), expected_order)
         ELSE StringIndexLoop(Tail(chars), quote_char, TRUE, expected_header,
                              expected_order)
    ELSE IF IsQuote(Head(chars)) /\ Head(chars) = quote_char
         THEN StringIndexLoop(Tail(chars), "None", in_brackets, expected_header,
                              expected_order)
         ELSE StringIndexLoop(Tail(chars), quote_char, in_brackets,
                              Append(expected_header, Head(chars)), expected_order)

\* get_string_index once the loop is over: an empty order is "0"
StringIndexOf(scanned, headers) ==
    IF ParseUsize(IF scanned.expected_order = <<>> THEN <<"0">>
                  ELSE scanned.expected_order).kind = "Err"
    THEN [kind |-> "Err", err |-> InvalidConfiguration("Could not convert column name")]
    ELSE find_index_from_expected(
             scanned.expected_header,
             ParseUsize(IF scanned.expected_order = <<>> THEN <<"0">>
                        ELSE scanned.expected_order).val,
             headers)

\* CsvSettings::get_string_index
get_string_index(colname, headers) ==
    StringIndexOf(StringIndexLoop(Trim(colname), "None", FALSE, <<>>, <<>>), headers)

\* CsvSettings::get_field_index
get_field_index(colname, headers, has_header) ==
    IF get_numeric_index(colname).kind = "Some"
    THEN IF get_numeric_index(colname).val < Len(headers)
         THEN [kind |-> "Ok", val |-> get_numeric_index(colname).val]
         ELSE [kind |-> "Err",
               err |-> InvalidConfiguration("Column selection needs to be between 0 and len")]
    ELSE IF ~has_header
    THEN [kind |-> "Err",
          err |-> InvalidConfiguration("Columns must be numeric if you don't have a header")]
    ELSE get_string_index(colname, headers)

\* the loop of split_arg_string: a comma outside quotes ends a selection, the
\* quotes stay in it
RECURSIVE SplitArgLoop(_, _, _, _)
SplitArgLoop(chars, quote_char, current_splice, split_strings) ==
    IF chars = <<>>
    THEN IF current_splice # <<>> THEN Append(split_strings, current_splice)
         ELSE split_strings
    ELSE IF quote_char = "None" /\ Head(chars) = ","
    THEN SplitArgLoop(Tail(chars), quote_char, <<>>, Append(split_strings, current_splice))
    ELSE SplitArgLoop(Tail(chars),
                      IF quote_char = "None"
                      THEN (IF IsQuote(Head(chars)) THEN Head(chars) ELSE "None")
                      ELSE IF IsQuote(Head(chars)) /\ Head(chars) = quote_char
                      THEN "None" ELSE quote_char,
                      Append(current_splice, Head(chars)), split_strings)

\* CsvSettings::split_arg_string
split_arg_string(combined_cols) == SplitArgLoop(combined_cols, "None", <<>>, <<>>)

\* the selections of every -r (or -c) option, in the order given
RECURSIVE AllCols(_)
AllCols(user_defs) ==
    IF user_defs = <<>> THEN <<>>
    ELSE split_arg_string(Head(user_defs)) \o AllCols(Tail(user_defs))

\* the loop of get_field_indexes: `?` returns the first error, else the index
\* is pushed
RECURSIVE FieldIndexesLoop(_, _, _, _)
FieldIndexesLoop(all_cols, headers, has_header, output_vec) ==
    IF all_cols = <<>> THEN [kind |-> "Ok", val |-> output_vec]
    ELSE IF get_field_index(Head(all_cols), headers, has_header).kind = "Err"
    THEN get_field_index(Head(all_cols), headers, has_header)
    ELSE FieldIndexesLoop(Tail(all_cols), headers, has_header,
                          Append(output_vec,
                                 get_field_index(Head(all_cols), headers, has_header).val))

\* CsvSettings::get_field_indexes
get_field_indexes(user_defs, headers, has_header) ==
    FieldIndexesLoop(AllCols(user_defs), headers, has_header, <<>>)

\* a row policy where -D overrides -A instead of conflicting with it
row_order_descending_wins(row_ordering_pair) ==
    CASE row_ordering_pair = <<TRUE, TRUE>>   -> [kind |-> "Ok", val |-> "Descending"]
      [] row_ordering_pair = <<TRUE, FALSE>>  -> [kind |-> "Ok", val |-> "Ascending"]
      [] row_ordering_pair = <<FALSE, TRUE>>  -> [kind |-> "Ok", val |-> "Descending"]
      [] row_ordering_pair = <<FALSE, FALSE>> -> [kind |-> "Ok", val |-> "IndexOrder"]

\* get_aggregator: the match on (ascrow, descrow)
row_order(row_ordering_pair) ==
    CASE row_ordering_pair = <<TRUE, TRUE>>   ->
             [kind |-> "Err",
              err |-> InvalidConfiguration("You can only enter one of the -A and -D flags")]
      [] row_ordering_pair = <<TRUE, FALSE>>  -> [kind |-> "Ok", val |-> "Ascending"]
      [] row_ordering_pair = <<FALSE, TRUE>>  -> [kind |-> "Ok", val |-> "Descending"]
      [] row_ordering_pair = <<FALSE, FALSE>> -> [kind |-> "Ok", val |-> "IndexOrder"]

\* get_aggregator: the match on (indexcol, desccol)
column_order(column_ordering_pair) ==
    CASE column_ordering_pair = <<TRUE, TRUE>>   ->
             [kind |-> "Err",
              err |-> InvalidConfiguration("You can only enter one of the -I and -R flags")]
      [] column_ordering_pair = <<TRUE, FALSE>>  -> [kind |-> "Ok", val |-> "IndexOrder"]
      [] column_ordering_pair = <<FALSE, TRUE>>  -> [kind |-> "Ok", val |-> "Descending"]
      [] column_ordering_pair = <<FALSE, FALSE>> -> [kind |-> "Ok", val |-> "Ascending"]

\* get_aggregator: every `?` returns the first error
get_aggregator(args, headers) ==
    LET index_cols_r == get_field_indexes(args.rows, headers, TRUE)
        column_cols_r == get_field_indexes(args.columns, headers, TRUE)
        values_col_r == get_field_index(args.value, headers, TRUE)
        row_order_r == row_order(<<args.ascrow, args.descrow>>)
        column_order_r == column_order(<<args.indexcol, args.desccol>>)
    IN  IF index_cols_r.kind = "Err" THEN index_cols_r
        ELSE IF column_cols_r.kind = "Err" THEN column_cols_r
        ELSE IF values_col_r.kind = "Err" THEN values_col_r
        ELSE IF row_order_r.kind = "Err" THEN row_order_r
        ELSE IF column_order_r.kind = "Err" THEN column_order_r
        ELSE [kind |-> "Ok",
              index_cols |-> index_cols_r.val,
              column_cols |-> column_cols_r.val,
              values_col |-> values_col_r.val,
              skip_null |-> args.empty,
              row_order |-> row_order_r.val,
              column_order |-> column_order_r.val]

\* the command lines: -r, -c and -v given as field numbers or names, -e and the
\* four ordering flags present or not
ArgMatches ==
    [rows : {<<<<"0">>>>, <<<<"3">>>>}, columns : {<<<<"c">>>>}, value : {<<"2">>},
     empty : BOOLEAN, ascrow : BOOLEAN, descrow : BOOLEAN,
     indexcol : BOOLEAN, desccol : BOOLEAN]

InitMain ==
    /\ pc = "get_aggregator"
    /\ arg_matches \in ArgMatches
    /\ aggtype = "Count"
    /\ parser = get_parser(aggtype, FALSE, FALSE, FALSE)
    /\ index_cols = <<>>
    /\ column_cols = <<>>
    /\ values_col = 0
    /\ aggregations = EmptyMap
    /\ indexes = {}
    /\ columns = {}
    /\ line_num = 0
    /\ result = NoResult
    /\ output = <<>>
    /\ lastCall = NoCall
    /\ calls = EmptyMap
    /\ nonskipped = EmptyMap
    /\ nskipped = 0
    /\ raws = <<>>
    /\ IdleAcc
    /\ first_seen = NoneSeen

\* agg_from_reader calls get_aggregator; its error is returned by the `?` before
\* agg.aggregate(reader)
GetAggregator ==
    /\ pc = "get_aggregator"
    /\ \E r \in {get_aggregator(arg_matches, Headers)} :
          IF r.kind = "Ok"
          THEN /\ pc' = "aggregate"
               /\ index_cols' = r.index_cols
               /\ column_cols' = r.column_cols
               /\ values_col' = r.values_col
               /\ parser' = get_parser(aggtype, FALSE, FALSE, r.skip_null)
               /\ UNCHANGED result
          ELSE /\ pc' = "error"
               /\ result' = r.err
               /\ UNCHANGED <<index_cols, column_cols, values_col, parser>>
    /\ UNCHANGED <<aggtype, aggregations, indexes, columns, line_num, output, lastCall,
                   calls, nonskipped, nskipped, raws, acc, fed, arg_matches,
                   first_seen>>

NextMain == GetAggregator \/ AggregateRecord \/ ReaderError \/ FinishRun

SpecMain == InitMain /\ [][NextMain]_vars

(***************************************************************************)
(* Every aggregation method under every choice of the -N, --infer and -e   *)
(* flags, over a file of one column: the parser built by get_parser reads  *)
(* the value strings and add_record hands the values to the accumulator.   *)
(***************************************************************************)
MaxTyped == 2   \* records in one run

\* the match arm `_` of the accumulator's new and update: the value is not of a
\* variant the method has an arm for
TakesFallback(t, parsed_val) ==
    CASE t = "Count" -> FALSE
      [] t \in {"Sum", "Mean", "Median"} -> ~IsSome(parsed_val, "Numeric")
      [] t \in {"Mode", "CountUnique"} -> ~IsSome(parsed_val, "Text")
      [] t = "StdDev" -> ~IsSome(parsed_val, "FloatingPoint")
      [] t = "Range" -> ~(IsSome(parsed_val, "Numeric") \/ IsSome(parsed_val, "DateTypes"))
      [] t \in {"Minimum", "Maximum"} ->
             ~(parsed_val.some /\ parsed_val.variant \in {"Numeric", "DateTypes", "Text"})

\* the value strings of the file, by the domain they are read in
TypedStrings(values_type) ==
    IF values_type = "DateTypes"
    THEN {<<"2", "0", "1", "6", "-", "1", "2", "-", "1", "5", " ",
            "0", "0", ":", "0", "0", ":", "0", "0">>,
          <<"2", "0", "1", "6", "-", "1", "2", "-", "1", "6", " ",
            "0", "6", ":", "0", "0", ":", "0", "0">>,
          <<"x">>, <<"N", "A">>}
    ELSE {<<"5">>, <<"1", ".", "5">>, <<"x">>, <<"N", "A">>}

InitTyped ==
    /\ pc = "aggregate"
    /\ aggtype \in {"Count", "CountUnique", "Mode", "Mean", "Median", "Sum", "StdDev",
                    "Minimum", "Maximum", "Range"}
    /\ \E parse_numeric_flag, infer_date, empty_flag \in BOOLEAN :
          parser = get_parser(aggtype, parse_numeric_flag, infer_date, empty_flag)
    /\ index_cols = <<>>
    /\ column_cols = <<>>
    /\ values_col = 0
    /\ aggregations = EmptyMap
    /\ indexes = {}
    /\ columns = {}
    /\ line_num = 0
    /\ result = NoResult
    /\ output = <<>>
    /\ lastCall = NoCall
    /\ calls = EmptyMap
    /\ nonskipped = EmptyMap
    /\ nskipped = 0
    /\ raws = <<>>
    /\ IdleAcc
    /\ arg_matches = NoArgs
    /\ first_seen = NoneSeen

\* one iteration of the loop of Aggregator::aggregate_from_file
TypedRecord ==
    /\ pc = "aggregate"
    /\ line_num < MaxTyped
    /\ \E str \in TypedStrings(parser.values_type) :
          \E r \in {add_record(aggregations, indexes, columns, <<str>>, line_num)} :
              /\ aggregations' = r.upd.aggs
              /\ indexes' = r.indexes
              /\ columns' = r.columns
              /\ Record(<<str>>, line_num, r)
              /\ raws' = Append(raws, str)
              /\ IF r.ret.kind = "Ok"
                 THEN /\ line_num' = line_num + 1
                      /\ UNCHANGED <<pc, result>>
                 ELSE /\ pc' = "error"
                      /\ result' = r.ret
                      /\ UNCHANGED line_num
    /\ UNCHANGED <<parser, aggtype, index_cols, column_cols, values_col, output,
                   acc, fed, arg_matches>>

NextTyped == TypedRecord \/ ReaderError \/ FinishRun

SpecTyped == InitTyped /\ [][NextTyped]_vars

(***************************************************************************)
(* Composite keys: get_colname applied to records whose fields are any     *)
(* strings a csv file can hold, the separator's own characters included.   *)
(***************************************************************************)
MaxKeyed == 2   \* records whose key is built in one run

KeyFields == {<<>>, <<"a">>, FIELD_SEPARATOR, <<"a">> \o FIELD_SEPARATOR}
KeyRecords == {<<f, g>> : f \in KeyFields, g \in KeyFields}

InitKey ==
    /\ pc = "key"
    /\ index_cols \in {<<0>>, <<0, 1>>, <<1, 0>>}
    /\ aggtype = "Count"
    /\ parser = get_parser(aggtype, FALSE, FALSE, FALSE)
    /\ column_cols = <<>>
    /\ values_col = 0
    /\ aggregations = EmptyMap
    /\ indexes = {}
    /\ columns = {}
    /\ line_num = 0
    /\ result = NoResult
    /\ output = <<>>
    /\ lastCall = NoCall
    /\ calls = EmptyMap
    /\ nonskipped = EmptyMap
    /\ nskipped = 0
    /\ raws = <<>>
    /\ IdleAcc
    /\ arg_matches = NoArgs
    /\ first_seen = NoneSeen

\* add_record builds the row key of the next record: fed holds the records,
\* output their keys
KeyRecord ==
    /\ pc = "key"
    /\ Len(fed) < MaxKeyed
    /\ \E record \in KeyRecords :
          /\ fed' = Append(fed, record)
          /\ output' = Append(output, get_colname(index_cols, record))
          /\ indexes' = indexes \cup {get_colname(index_cols, record)}
    /\ UNCHANGED <<pc, parser, aggtype, index_cols, column_cols, values_col,
                   aggregations, columns, line_num, result, lastCall, calls,
                   nonskipped, nskipped, raws, acc, arg_matches, first_seen>>

NextKey == KeyRecord

SpecKey == InitKey /\ [][NextKey]_vars

(***************************************************************************)
(* Sums at the edge of the Decimal range.  A Decimal of scale 0 holds an   *)
(* integer of at most 96 bits; here such a value is the sequence of its    *)
(* decimal digits, most significant first, so that the limit is exact.     *)
(***************************************************************************)
MaxWide == 3   \* records in one run

\* Decimal::MAX = 2^96 - 1
DECIMAL_MAX == [i \in 1..29 |-> DigitVal(<<"7", "9", "2", "2", "8", "1", "6", "2", "5", "1", "4", "2", "6", "4", "3", "3", "7", "5", "9", "3", "5", "4", "3", "9", "5", "0", "3", "3", "5">>[i])]

\* the value strings of the file: Decimal::MAX, 2^95, 2^95 - 1, 1 and 5
WideStrings ==
    {<<"7", "9", "2", "2", "8", "1", "6", "2", "5", "1", "4", "2", "6", "4", "3", "3", "7", "5", "9", "3", "5", "4", "3", "9", "5", "0", "3", "3", "5">>,
     <<"3", "9", "6", "1", "4", "0", "8", "1", "2", "5", "7", "1", "3", "2", "1", "6", "8", "7", "9", "6", "7", "7", "1", "9", "7", "5", "1", "6", "8">>,
     <<"3", "9", "6", "1", "4", "0", "8", "1", "2", "5", "7", "1", "3", "2", "1", "6", "8", "7", "9", "6", "7", "7", "1", "9", "7", "5", "1", "6", "7">>,
     <<"1">>, <<"5">>}

\* Decimal::from_str on a string of digits
WideFromStr(str) == [i \in DOMAIN str |-> DigitVal(str[i])]

\* Decimal::to_string of a non-negative Decimal of scale 0
WideToString(digits) == [i \in DOMAIN digits |-> DigitChars[digits[i] + 1]]

\* the digits of a + b with carry, least significant first
HeadOrZero(digits) == IF digits = <<>> THEN 0 ELSE Head(digits)
TailOrEmpty(digits) == IF digits = <<>> THEN <<>> ELSE Tail(digits)

RECURSIVE AddReversed(_, _, _)
AddReversed(a, b, carry) ==
    IF a = <<>> /\ b = <<>>
    THEN IF carry = 0 THEN <<>> ELSE <<carry>>
    ELSE <<(HeadOrZero(a) + HeadOrZero(b) + carry) % 10>>
             \o AddReversed(TailOrEmpty(a), TailOrEmpty(b),
                            (HeadOrZero(a) + HeadOrZero(b) + carry) \div 10)

Reversed(seq) == [i \in DOMAIN seq |-> seq[Len(seq) + 1 - i]]

WideAdd(a, b) == Reversed(AddReversed(Reversed(a), Reversed(b), 0))

RECURSIVE DigitsLeq(_, _)
\* a <= b for digit sequences of one length
DigitsLeq(a, b) ==
    IF a = <<>> THEN TRUE
    ELSE IF Head(a) # Head(b) THEN Head(a) < Head(b)
    ELSE DigitsLeq(Tail(a), Tail(b))

WideLeq(a, b) ==
    IF Len(a) # Len(b) THEN Len(a) < Len(b) ELSE DigitsLeq(a, b)

\* Decimal::checked_add on two non-negative Decimals of scale 0: None when the sum
\* does not fit 96 bits
checked_add(a, b) ==
    IF WideLeq(WideAdd(a, b), DECIMAL_MAX)
    THEN [kind |-> "Some", val |-> WideAdd(a, b)]
    ELSE [kind |-> "None"]

InitWide ==
    /\ pc = "wide"
    /\ aggtype = "Sum"
    /\ parser = get_parser(aggtype, FALSE, FALSE, FALSE)
    /\ index_cols = <<>>
    /\ column_cols = <<>>
    /\ values_col = 0
    /\ aggregations = EmptyMap
    /\ indexes = {}
    /\ columns = {}
    /\ line_num = 0
    /\ result = NoResult
    /\ output = <<>>
    /\ lastCall = NoCall
    /\ calls = EmptyMap
    /\ nonskipped = EmptyMap
    /\ nskipped = 0
    /\ raws = <<>>
    /\ IdleAcc
    /\ arg_matches = NoArgs
    /\ first_seen = NoneSeen

\* add_record on the next record of a one-column file with Sum: Sum::new on the
\* first value of the cell (total, total), Sum::update on the later ones, where
\* the unwrap of checked_add's None ends the process
AddWideRecord ==
    /\ pc = "wide"
    /\ line_num < MaxWide
    /\ \E str \in WideStrings :
          /\ raws' = Append(raws, str)
          /\ IF <<TOTAL, TOTAL>> \notin DOMAIN aggregations
             THEN /\ aggregations' = Put(aggregations, <<TOTAL, TOTAL>>,
                                         [cur_total |-> WideFromStr(str)])
                  /\ line_num' = line_num + 1
                  /\ UNCHANGED <<pc, result>>
             ELSE \E total \in {checked_add(aggregations[<<TOTAL, TOTAL>>].cur_total,
                                            WideFromStr(str))} :
                     IF total.kind = "Some"
                     THEN /\ aggregations' = Put(aggregations, <<TOTAL, TOTAL>>,
                                                 [cur_total |-> total.val])
                          /\ line_num' = line_num + 1
                          /\ UNCHANGED <<pc, result>>
                     ELSE /\ pc' = "aborted"
                          /\ result' = [kind |-> "panic"]
                          /\ UNCHANGED <<aggregations, line_num>>
    /\ indexes' = {TOTAL}
    /\ columns' = {TOTAL}
    /\ UNCHANGED <<parser, aggtype, index_cols, column_cols, values_col, output,
                   lastCall, calls, nonskipped, nskipped, acc, fed, arg_matches,
                   first_seen>>

\* the reader is exhausted: write_results writes the header and the row of the
\* one cell
FinishWide ==
    /\ pc = "wide"
    /\ pc' = "done"
    /\ result' = [kind |-> "Ok"]
    /\ output' = IF <<TOTAL, TOTAL>> \in DOMAIN aggregations
                 THEN << << <<>>, TOTAL >>,
                         << TOTAL, WideToString(aggregations[<<TOTAL, TOTAL>>].cur_total) >> >>
                 ELSE << << <<>> >> >>
    /\ UNCHANGED <<parser, aggtype, index_cols, column_cols, values_col, aggregations,
                   indexes, columns, line_num, lastCall, calls, nonskipped, nskipped,
                   raws, acc, fed, arg_matches, first_seen>>

NextWide == AddWideRecord \/ FinishWide

SpecWide == InitWide /\ [][NextWide]_vars

(***************************************************************************)
(* The configuration of the pivot engine: CliConfig::validate_columns      *)
(* resolves the selections of the -r, -c and -v options against the header *)
(* row before any record is read.  A selection is a field number, a name,  *)
(* or a name with the occurrence in brackets.  Selections are ASCII, so a  *)
(* character index is a byte index.                                        *)
(***************************************************************************)
Panic == [kind |-> "panic"]

\* headers.iter().position(|&x| x == name)
Position(headers, name) ==
    IF \E i \in DOMAIN headers : headers[i] = name
    THEN [kind |-> "Some",
          val |-> (CHOOSE i \in DOMAIN headers :
                      /\ headers[i] = name
                      /\ \A j \in 1..(i - 1) : headers[j] # name) - 1]
    ELSE [kind |-> "None"]

\* colname.replace("\"", "")
RemoveDoubleQuotes(s) == Without(s, {i \in DOMAIN s : s[i] = "\""})

\* the loop of get_header_idx over (i, c) of colname.chars().enumerate()
RECURSIVE HeaderIdxLoop(_, _, _, _, _, _, _)
HeaderIdxLoop(colname, i, in_quotes, order_specification, occurrence_start, occurrence_end, all_numeric) ==
    IF i >= Len(colname)
    THEN [kind |-> "Done", order_specification |-> order_specification,
          occurrence_start |-> occurrence_start, occurrence_end |-> occurrence_end,
          all_numeric |-> all_numeric]
    ELSE IF IsQuote(colname[i + 1])
    THEN HeaderIdxLoop(colname, i + 1, ~in_quotes, order_specification,
                       occurrence_start, occurrence_end, FALSE)
    ELSE IF in_quotes
    THEN HeaderIdxLoop(colname, i + 1, in_quotes, order_specification,
                       occurrence_start, occurrence_end,
                       all_numeric /\ IsAsciiDigit(colname[i + 1]))
    ELSE IF colname[i + 1] = "["
    THEN HeaderIdxLoop(colname, i + 1, in_quotes, TRUE,
                       IF i + 1 < Len(colname) THEN i + 1 ELSE occurrence_start,
                       occurrence_end, FALSE)
    ELSE IF colname[i + 1] = "]"
    THEN HeaderIdxLoop(colname, i + 1, in_quotes, order_specification,
                       occurrence_start, i, FALSE)
    ELSE IF order_specification /\ ~IsAsciiDigit(colname[i + 1])
    THEN [kind |-> "Err",
          err |-> InvalidConfiguration("Could not parse the fieldname")]
    ELSE HeaderIdxLoop(colname, i + 1, in_quotes, order_specification,
                       occurrence_start, occurrence_end,
                       all_numeric /\ IsAsciiDigit(colname[i + 1]))

\* the second loop of get_header_idx: the field with parsed_val earlier fields
\* of the name orig_name
HeaderOccurrence(orig_name, parsed_val, headers) ==
    IF \E i \in DOMAIN headers :
          /\ headers[i] = orig_name
          /\ Cardinality({j \in 1..i : headers[j] = orig_name}) = parsed_val + 1
    THEN [kind |-> "Ok",
          val |-> (CHOOSE i \in DOMAIN headers :
                      /\ headers[i] = orig_name
                      /\ Cardinality({j \in 1..i : headers[j] = orig_name})
                             = parsed_val + 1) - 1]
    ELSE [kind |-> "Err",
          err |-> InvalidConfiguration("There are only count occurrences of the fieldname")]

\* get_header_idx after its first loop.  colname.parse().unwrap() panics on a
\* selection that is no number, and colname[occurrence_start..occurrence_end]
\* panics when the slice begins after its end.
HeaderIdxOf(colname, headers, scanned) ==
    IF scanned.kind = "Err" THEN scanned
    ELSE IF scanned.all_numeric
    THEN IF ParseUsize(colname).kind = "Err" THEN Panic
         ELSE IF ParseUsize(colname).val >= Len(headers)
         THEN [kind |-> "Err",
               err |-> InvalidConfiguration("Column selection must be between 0 and len")]
         ELSE [kind |-> "Ok", val |-> ParseUsize(colname).val]
    ELSE IF scanned.order_specification
    THEN IF scanned.occurrence_start < 1
         THEN [kind |-> "Err", err |-> InvalidConfiguration("Couldn't parse field.")]
         ELSE IF scanned.occurrence_start > scanned.occurrence_end THEN Panic
         ELSE IF ParseUsize(SubSeq(colname, scanned.occurrence_start + 1,
                                   scanned.occurrence_end)).kind = "Err"
         THEN [kind |-> "Err",
               err |-> InvalidConfiguration("Fieldnames with brackets must be in quotes")]
         ELSE HeaderOccurrence(
                  SubSeq(colname, 1, scanned.occurrence_start - 1),
                  ParseUsize(SubSeq(colname, scanned.occurrence_start + 1,
                                    scanned.occurrence_end)).val,
                  headers)
    ELSE IF Position(headers, RemoveDoubleQuotes(colname)).kind = "Some"
    THEN [kind |-> "Ok", val |-> Position(headers, RemoveDoubleQuotes(colname)).val]
    ELSE [kind |-> "Err", err |-> InvalidConfiguration("Could not find the fieldname")]

\* a get_header_idx that reads a field number without comparing it with the
\* length of the header row
get_header_idx_unchecked(colname, headers, has_header) ==
    IF colname # <<>> /\ AllDigits(colname)
    THEN [kind |-> "Ok", val |-> DigitsToNat(colname)]
    ELSE IF colname = <<>>
    THEN [kind |-> "Err", err |-> InvalidConfiguration("Could not parse the fieldname")]
    ELSE HeaderIdxOf(colname, headers,
                     HeaderIdxLoop(colname, 0, FALSE, FALSE, 0, 0, TRUE))

\* CliConfig::get_header_idx: the loop runs only when the file has a header row
get_header_idx(colname, headers, has_header) ==
    IF colname = <<>>
    THEN IF Position(headers, <<>>).kind = "Some"
         THEN [kind |-> "Ok", val |-> Position(headers, <<>>).val]
         ELSE [kind |-> "Err", err |-> InvalidConfiguration("Could not parse the fieldname")]
    ELSE HeaderIdxOf(colname, headers,
                     IF has_header
                     THEN HeaderIdxLoop(colname, 0, FALSE, FALSE, 0, 0, TRUE)
                     ELSE [kind |-> "Done", order_specification |-> FALSE,
                           occurrence_start |-> 0, occurrence_end |-> 0,
                           all_numeric |-> TRUE])

\* the loop of parse_combined_col; prev_quote is "None" before the first quote
RECURSIVE CombinedColLoop(_, _, _, _, _)
CombinedColLoop(chars, in_quotes, cur_string, prev_quote, output_vec) ==
    IF chars = <<>>
    THEN [kind |-> "Done", in_quotes |-> in_quotes,
          output_vec |-> IF cur_string # <<>> THEN Append(output_vec, cur_string)
                         ELSE output_vec]
    ELSE IF ~in_quotes
    THEN IF IsQuote(Head(chars)) /\ cur_string = <<>>
         THEN CombinedColLoop(Tail(chars), TRUE, <<Head(chars)>>, Head(chars), output_vec)
         ELSE IF Head(chars) = ","
         THEN CombinedColLoop(Tail(chars), in_quotes, <<>>, prev_quote,
                              Append(output_vec, cur_string))
         ELSE CombinedColLoop(Tail(chars), in_quotes, Append(cur_string, Head(chars)),
                              prev_quote, output_vec)
    ELSE IF IsQuote(Head(chars))
    THEN IF prev_quote # Head(chars)
         THEN [kind |-> "Err",
               err |-> InvalidConfiguration("Quotes inside fieldname were not properly closed")]
         ELSE CombinedColLoop(Tail(chars), FALSE, Append(cur_string, Head(chars)),
                              prev_quote, output_vec)
    ELSE CombinedColLoop(Tail(chars), in_quotes, Append(cur_string, Head(chars)),
                         prev_quote, output_vec)

\* parse_combined_col after its loop
CombinedColOf(combined_name, scanned) ==
    IF scanned.kind = "Err" THEN scanned
    ELSE IF scanned.in_quotes
    THEN [kind |-> "Err",
          err |-> InvalidConfiguration("Quotes inside fieldname were not properly closed")]
    ELSE IF combined_name # <<>> /\ combined_name[Len(combined_name)] = ","
    THEN [kind |-> "Err",
          err |-> InvalidConfiguration("One of the fieldnames ends with an unquoted comma")]
    ELSE [kind |-> "Ok", val |-> scanned.output_vec]

\* CliConfig::parse_combined_col
parse_combined_col(combined_name) ==
    CombinedColOf(combined_name,
                  CombinedColLoop(combined_name, FALSE, <<>>, "None", <<>>))

\* CliConfig::get_multiple_header_columns: `?` returns the first error
RECURSIVE get_multiple_header_columns(_)
get_multiple_header_columns(colnames) ==
    IF colnames = <<>> THEN [kind |-> "Ok", val |-> <<>>]
    ELSE IF parse_combined_col(Head(colnames)).kind = "Err"
    THEN parse_combined_col(Head(colnames))
    ELSE IF get_multiple_header_columns(Tail(colnames)).kind = "Err"
    THEN get_multiple_header_columns(Tail(colnames))
    ELSE [kind |-> "Ok",
          val |-> parse_combined_col(Head(colnames)).val
                      \o get_multiple_header_columns(Tail(colnames)).val]

\* the first loop of get_idx_vec: `?` returns the first error
RECURSIVE AllColsLoop(_, _, _, _)
AllColsLoop(expected_cols, headers, has_header, all_cols) ==
    IF expected_cols = <<>> THEN [kind |-> "Ok", val |-> all_cols]
    ELSE IF get_header_idx(Head(expected_cols), headers, has_header).kind # "Ok"
    THEN get_header_idx(Head(expected_cols), headers, has_header)
    ELSE AllColsLoop(Tail(expected_cols), headers, has_header,
                     Append(all_cols,
                            get_header_idx(Head(expected_cols), headers, has_header).val))

\* a second loop that records every index it pushes and so drops the repeats
RECURSIVE OutputColsLoopRecordingPushed(_, _, _)
OutputColsLoopRecordingPushed(all_cols, parsed_cols, output_cols) ==
    IF all_cols = <<>> THEN output_cols
    ELSE IF Head(all_cols) \notin parsed_cols
    THEN OutputColsLoopRecordingPushed(Tail(all_cols), parsed_cols \cup {Head(all_cols)},
                                       Append(output_cols, Head(all_cols)))
    ELSE OutputColsLoopRecordingPushed(Tail(all_cols), parsed_cols, output_cols)

\* the second loop of get_idx_vec: an index that is not in parsed_cols is
\* pushed, one that is in it is inserted into it
RECURSIVE OutputColsLoop(_, _, _)
OutputColsLoop(all_cols, parsed_cols, output_cols) ==
    IF all_cols = <<>> THEN output_cols
    ELSE IF Head(all_cols) \notin parsed_cols
    THEN OutputColsLoop(Tail(all_cols), parsed_cols, Append(output_cols, Head(all_cols)))
    ELSE OutputColsLoop(Tail(all_cols), parsed_cols \cup {Head(all_cols)}, output_cols)

\* CliConfig::get_idx_vec
get_idx_vec(expected_cols, headers, has_header) ==
    IF AllColsLoop(expected_cols, headers, has_header, <<>>).kind # "Ok"
    THEN AllColsLoop(expected_cols, headers, has_header, <<>>)
    ELSE [kind |-> "Ok",
          val |-> OutputColsLoop(AllColsLoop(expected_cols, headers, has_header, <<>>).val,
                                 {}, <<>>)]

\* get_multiple_header_columns(..)? followed by get_idx_vec(..)?
IdxVecOf(colnames, headers, has_header) ==
    IF get_multiple_header_columns(colnames).kind # "Ok"
    THEN get_multiple_header_columns(colnames)
    ELSE get_idx_vec(get_multiple_header_columns(colnames).val, headers, has_header)

\* CliConfig::validate_columns: the indexes, then the columns, then the value
validate_columns(config, headers) ==
    IF IdxVecOf(config.indexes, headers, config.has_header).kind # "Ok"
    THEN IdxVecOf(config.indexes, headers, config.has_header)
    ELSE IF IdxVecOf(config.column_cols, headers, config.has_header).kind # "Ok"
    THEN IdxVecOf(config.column_cols, headers, config.has_header)
    ELSE IF get_header_idx(config.values_col, headers, config.has_header).kind # "Ok"
    THEN get_header_idx(config.values_col, headers, config.has_header)
    ELSE [kind |-> "Ok",
          index_vec |-> IdxVecOf(config.indexes, headers, config.has_header).val,
          column_vec |-> IdxVecOf(config.column_cols, headers, config.has_header).val,
          values_vec |-> get_header_idx(config.values_col, headers, config.has_header).val]

\* the header row of the file of Records: the two key fields have one name
ConfigHeaders == <<<<"k">>, <<"k">>, <<"v">>>>

\* the -r options: a name, a name twice in one option, a number in two options,
\* a number past the header row, an occurrence with no closing bracket, and a
\* quote that is never closed
ConfigIndexes ==
    {<<<<"k">>>>, <<<<"k", ",", "k">>>>, <<<<"0">>, <<"0">>>>, <<<<"3">>>>,
     <<<<"k", "[", "1">>>>, <<<<"'", "k">>>>}

\* the -c options: a number, the second field of the name, and a third one
ConfigColumnCols ==
    {<<<<"1">>>>, <<<<"k", "[", "1", "]">>>>, <<<<"k", "[", "2", "]">>>>}

ConfigValuesCols == {<<"2">>, <<"v">>}

CliConfigs ==
    [kind : {"CliConfig"}, indexes : ConfigIndexes, column_cols : ConfigColumnCols,
     values_col : ConfigValuesCols, has_header : BOOLEAN]

InitValidate ==
    /\ pc = "validate_columns"
    /\ arg_matches \in CliConfigs
    /\ aggtype = "Count"
    /\ parser = get_parser(aggtype, FALSE, FALSE, FALSE)
    /\ index_cols = <<>>
    /\ column_cols = <<>>
    /\ values_col = 0
    /\ aggregations = EmptyMap
    /\ indexes = {}
    /\ columns = {}
    /\ line_num = 0
    /\ result = NoResult
    /\ output = <<>>
    /\ lastCall = NoCall
    /\ calls = EmptyMap
    /\ nonskipped = EmptyMap
    /\ nskipped = 0
    /\ raws = <<>>
    /\ IdleAcc
    /\ first_seen = NoneSeen

\* run_config: validate_columns(&headers)? sets the indexes of the aggregator
\* before aggregate_from_file; an error is returned and a panic ends the process
ValidateColumns ==
    /\ pc = "validate_columns"
    /\ \E r \in {validate_columns(arg_matches, ConfigHeaders)} :
          IF r.kind = "Ok"
          THEN /\ pc' = "aggregate"
               /\ index_cols' = r.index_vec
               /\ column_cols' = r.column_vec
               /\ values_col' = r.values_vec
               /\ UNCHANGED result
          ELSE /\ pc' = IF r.kind = "panic" THEN "panicked" ELSE "error"
               /\ result' = IF r.kind = "panic" THEN r ELSE r.err
               /\ UNCHANGED <<index_cols, column_cols, values_col>>
    /\ UNCHANGED <<parser, aggtype, aggregations, indexes, columns, line_num, output,
                   lastCall, calls, nonskipped, nskipped, raws, acc, fed, arg_matches,
                   first_seen>>

NextValidate == ValidateColumns \/ AggregateRecord \/ ReaderError \/ FinishRun

SpecValidate == InitValidate /\ [][NextValidate]_vars

(***************************************************************************)
(* One selection resolved against a header row, by CsvSettings (the        *)
(* command line of main.rs) and by CliConfig (the pivot engine's own       *)
(* configuration).                                                         *)
(***************************************************************************)
MaxSelector == 3   \* characters of a selection typed freely

SelectChars == {"a", "1", "[", "]", "'", " "}

\* the strings of at most n characters
RECURSIVE StringsUpTo(_)
StringsUpTo(n) ==
    IF n = 0 THEN {<<>>}
    ELSE StringsUpTo(n - 1)
             \cup {Append(str, c) : str \in StringsUpTo(n - 1), c \in SelectChars}

\* a header row with a repeated name and a repeated name that holds brackets
SelectHeaders ==
    <<<<"a">>, <<"a", "[", "0", "]">>, <<"a">>, <<"a", "[", "0", "]">>>>

\* a selection written from its parts: the name, the quote around it ("None"
\* for a bare name) and the text between the brackets, when there are brackets
SelectorOf(parts) ==
    (IF parts.quote = "None" THEN parts.name
     ELSE <<parts.quote>> \o parts.name \o <<parts.quote>>)
        \o (IF parts.bracketed THEN <<"[">> \o parts.order \o <<"]">> ELSE <<>>)

\* a bare name holds no bracket; brackets with nothing or a letter between them
\* hold no number
SelectorParts ==
    {parts \in [name : {<<"a">>, <<"b">>, <<"a", "[", "0", "]">>},
                quote : {"None", "'", "\""},
                bracketed : BOOLEAN,
                order : {<<>>, <<"0">>, <<"1">>, <<"2">>, <<"x">>}] :
        /\ parts.quote = "None" => \A i \in DOMAIN parts.name : parts.name[i] \notin {"[", "]"}
        /\ ~parts.bracketed => parts.order = <<>>}

\* a selection of no particular form
FreeParts(str) == [name |-> str, quote |-> "free", bracketed |-> FALSE, order |-> <<>>]

Selections ==
    {[kind |-> "selection", colname |-> SelectorOf(parts), parts |-> parts,
      has_header |-> h] : parts \in SelectorParts, h \in BOOLEAN}
    \cup {[kind |-> "selection", colname |-> str, parts |-> FreeParts(str),
           has_header |-> h] : str \in StringsUpTo(MaxSelector), h \in BOOLEAN}

InitSelect ==
    /\ pc = "select"
    /\ arg_matches \in Selections
    /\ aggtype = "Count"
    /\ parser = get_parser(aggtype, FALSE, FALSE, FALSE)
    /\ index_cols = <<>>
    /\ column_cols = <<>>
    /\ values_col = 0
    /\ aggregations = EmptyMap
    /\ indexes = {}
    /\ columns = {}
    /\ line_num = 0
    /\ result = NoResult
    /\ output = <<>>
    /\ lastCall = NoCall
    /\ calls = EmptyMap
    /\ nonskipped = EmptyMap
    /\ nskipped = 0
    /\ raws = <<>>
    /\ IdleAcc
    /\ first_seen = NoneSeen

\* settings.get_field_index(colname, &headers)
GetFieldIndex ==
    /\ pc = "select"
    /\ pc' = "selected"
    /\ result' = get_field_index(arg_matches.colname, SelectHeaders, arg_matches.has_header)
    /\ lastCall' = [op |-> "get_field_index"]
    /\ UNCHANGED <<parser, aggtype, index_cols, column_cols, values_col, aggregations,
                   indexes, columns, line_num, output, calls, nonskipped, nskipped,
                   raws, acc, fed, arg_matches, first_seen>>

\* self.get_header_idx(colname, headers)
GetHeaderIdx ==
    /\ pc = "select"
    /\ pc' = "selected"
    /\ result' = get_header_idx(arg_matches.colname, SelectHeaders, arg_matches.has_header)
    /\ lastCall' = [op |-> "get_header_idx"]
    /\ UNCHANGED <<parser, aggtype, index_cols, column_cols, values_col, aggregations,
                   indexes, columns, line_num, output, calls, nonskipped, nskipped,
                   raws, acc, fed, arg_matches, first_seen>>

NextSelect == GetFieldIndex \/ GetHeaderIdx

SpecSelect == InitSelect /\ [][NextSelect]_vars

(***************************************************************************)
(* A run over a file with a single column, which is the value column: no   *)
(* --rows and no --cols, so every record falls in the cell (total, total). *)
(***************************************************************************)
FeedValues == {<<>>, <<"N", "A">>, <<"n", "u", "l", "l">>, <<"5">>, <<"n", "/", "a">>,
               <<"N", "o", "n", "e">>, <<"n", "A", "n">>, <<"n", "a", "b">>}
FeedRecords == {<<v>> : v \in FeedValues}

InitFeed ==
    /\ pc = "aggregate"
    /\ aggtype \in EngineAggTypes
    /\ \E empty_flag \in BOOLEAN : parser = get_parser(aggtype, FALSE, FALSE, empty_flag)
    /\ index_cols = <<>>
    /\ column_cols = <<>>
    /\ values_col = 0
    /\ aggregations = EmptyMap
    /\ indexes = {}
    /\ columns = {}
    /\ line_num = 0
    /\ result = NoResult
    /\ output = <<>>
    /\ lastCall = NoCall
    /\ calls = EmptyMap
    /\ nonskipped = EmptyMap
    /\ nskipped = 0
    /\ raws = <<>>
    /\ IdleAcc
    /\ arg_matches = NoArgs
    /\ first_seen = NoneSeen

\* one iteration of the loop of Aggregator::aggregate_from_file over the
\* single-column file
FeedRecord ==
    /\ pc = "aggregate"
    /\ line_num < MaxFeed
    /\ \E record \in FeedRecords :
          \E r \in {add_record(aggregations, indexes, columns, record, line_num)} :
              /\ aggregations' = r.upd.aggs
              /\ indexes' = r.indexes
              /\ columns' = r.columns
              /\ Record(record, line_num, r)
              /\ raws' = Append(raws, record[values_col + 1])
              /\ IF r.ret.kind = "Ok"
                 THEN /\ line_num' = line_num + 1
                      /\ UNCHANGED <<pc, result>>
                 ELSE /\ pc' = "error"
                      /\ result' = r.ret
                      /\ UNCHANGED line_num
    /\ UNCHANGED <<parser, aggtype, index_cols, column_cols, values_col, output,
                   acc, fed,
                   arg_matches>>

NextFeed == FeedRecord \/ ReaderError \/ FinishRun

SpecFeed == InitFeed /\ [][NextFeed]_vars

(***************************************************************************)
(* One accumulator on its own: one `new`, then `update`s, then to_output,  *)
(* as update_aggregations and parse_writing drive the accumulator of one   *)
(* cell.                                                                   *)
(***************************************************************************)
AccAggTypes == {"Count", "CountUnique", "Maximum", "Mean", "Median", "Minimum", "Mode",
                "Range", "StdDev", "Sum"}

MedianValues == {Numeric(Dec(1, 0)), Numeric(Dec(2, 0)), Numeric(Dec(20, 1)),
                 Numeric(Dec(3, 0)), Numeric(Dec(0 - 15, 1))}
ModeValues == {Text(<<"a">>), Text(<<"b">>), Text(<<"c">>)}
SumStrings == {<<"0", ".", "1">>, <<"0", ".", "2">>, <<"2">>, <<"-", "1", ".", "5", "0">>}
SumValues == {Numeric(DecimalFromStr(str).val) : str \in SumStrings}
NumericValues == {Numeric(Dec(1, 0)), Numeric(Dec(2, 0)), Numeric(Dec(20, 1)),
                  Numeric(Dec(0 - 15, 1))}
TextValues == {Text(<<"1", "0">>), Text(<<"9">>), Text(<<"a">>), Text(<<"B">>)}
\* 2016-12-15 00:00:00 and 06:00:00, 2016-12-16 00:00:00 and 06:00:00
DateValues == {DateTypes(14 * 86400), DateTypes(14 * 86400 + 21600),
               DateTypes(15 * 86400), DateTypes(15 * 86400 + 21600)}
FloatValues == {FloatingPoint(Frac(1, 1)), FloatingPoint(Frac(2, 1)),
                FloatingPoint(Frac(1, 2))}
\* the values an accumulator of method t is given under the configured domain
AccValues(t) ==
    CASE t = "Median" -> MedianValues
      [] t \in {"Mode", "Count", "CountUnique"} -> ModeValues
      [] t \in {"Sum", "Mean"} -> SumValues
      [] t = "StdDev" -> FloatValues
      [] t \in {"Minimum", "Maximum", "Range"} /\ parser.values_type = "Numeric"
            -> NumericValues
      [] t \in {"Minimum", "Maximum", "Range"} /\ parser.values_type = "DateTypes"
            -> DateValues
      [] t \in {"Minimum", "Maximum"} /\ parser.values_type = "Text" -> TextValues

InitAcc ==
    /\ pc = "acc"
    /\ aggtype \in AccAggTypes
    /\ \E parse_numeric_flag, infer_date \in BOOLEAN :
          parser = get_parser(aggtype, parse_numeric_flag, infer_date, FALSE)
    /\ index_cols = <<>>
    /\ column_cols = <<>>
    /\ values_col = 0
    /\ aggregations = EmptyMap
    /\ indexes = {}
    /\ columns = {}
    /\ line_num = 0
    /\ result = NoResult
    /\ output = <<>>
    /\ lastCall = NoCall
    /\ calls = EmptyMap
    /\ nonskipped = EmptyMap
    /\ nskipped = 0
    /\ raws = <<>>
    /\ IdleAcc
    /\ arg_matches = NoArgs
    /\ first_seen = NoneSeen

\* AggregationMethod::new on the first value of the cell
AccNew ==
    /\ pc = "acc"
    /\ acc.kind = "none"
    /\ \E v \in AccValues(aggtype) :
          /\ acc' = [kind |-> "some", state |-> New(aggtype, v)]
          /\ fed' = <<v>>
    /\ UNCHANGED <<pc, parser, aggtype, index_cols, column_cols, values_col,
                   aggregations, indexes, columns, line_num, result, output, lastCall,
                   calls, nonskipped, nskipped, raws,
                   arg_matches, first_seen>>

\* AggregationMethod::update on a later value of the cell
AccUpdate ==
    /\ pc = "acc"
    /\ acc.kind = "some"
    /\ Len(fed) < MaxFed
    /\ \E v \in AccValues(aggtype) :
          /\ acc' = [acc EXCEPT !.state = Update(aggtype, @, v)]
          /\ fed' = Append(fed, v)
    /\ UNCHANGED <<pc, parser, aggtype, index_cols, column_cols, values_col,
                   aggregations, indexes, columns, line_num, result, output, lastCall,
                   calls, nonskipped, nskipped, raws,
                   arg_matches, first_seen>>

\* the unwrap of an exhausted iterator in Median::compute, or of the None of a
\* division by zero in Mean::compute, ends the process
Panics(t, self) ==
    \/ t = "Median" /\ MedianCompute(self).panic
    \/ t = "Mean" /\ MeanPanics(self)

\* AggregationMethod::to_output
AccOutput ==
    /\ pc = "acc"
    /\ acc.kind = "some"
    /\ pc' = "done"
    /\ IF Panics(aggtype, acc.state)
       THEN /\ result' = [kind |-> "panic"]
            /\ UNCHANGED output
       ELSE /\ result' = [kind |-> "Ok"]
            /\ output' = <<ToOutput(aggtype, acc.state)>>
    /\ UNCHANGED <<parser, aggtype, index_cols, column_cols, values_col,
                   aggregations, indexes, columns, line_num, lastCall, calls,
                   nonskipped, nskipped, raws, acc, fed,
                   arg_matches, first_seen>>

NextAcc == AccNew \/ AccUpdate \/ AccOutput

SpecAcc == InitAcc /\ [][NextAcc]_vars

(***************************************************************************)
(* Properties of the pivot engine.                                         *)
(***************************************************************************)
Cells == DOMAIN aggregations
RowsOf(C) == {c[1] : c \in C}
ColumnsOf(C) == {c[2] : c \in C}

\* C1: with empty-skipping enabled, add_record on a record whose value is a
\* vocabulary word (in any case) returns Ok and leaves the cell map, the row-key
\* set and the column-key set exactly as they were before the call.
C1_SkippedRecordLeavesStateUnchanged ==
    [][(/\ lastCall'.op = "add_record"
        /\ lastCall' # lastCall
        /\ IsSkipped(lastCall'.str_val))
          => (/\ lastCall'.ret.kind = "Ok"
              /\ aggregations' = aggregations
              /\ indexes' = indexes
              /\ columns' = columns)]_vars

\* C2: in every reachable state the row-key set is the set of row components of
\* the populated cells and the column-key set is the set of their column
\* components: no key exists without a populated cell.
C2_KeySetsAreCellComponents ==
    /\ indexes = RowsOf(Cells)
    /\ columns = ColumnsOf(Cells)

\* C3: a run that reaches the end of its input with zero contributing records
\* ends with a configuration error from write_results: no grid is emitted (not
\* even a header) and success is not reported.
C3_NoContributionIsConfigurationError ==
    (pc = "done" /\ calls = EmptyMap)
        => (result.kind = "InvalidConfiguration" /\ output = <<>>)

\* C4: when the value of record k fails to parse, ingestion stops at record k:
\* the run is over with that error, no later record has been passed to
\* add_record and nothing (not even the header) has been written.
C4_ParseErrorStopsRun ==
    (lastCall.op = "add_record" /\ lastCall.ret.kind = "ParsingError")
        => (/\ pc = "error"
            /\ result = lastCall.ret
            /\ result.line_num = lastCall.line_num
            /\ lastCall.line_num = line_num
            /\ output = <<>>)

C4_Witness ==
    /\ pc = "error"
    /\ result.kind = "ParsingError"
    /\ result.line_num = 2
    /\ Cells # {}

\* the number of accumulator calls a cell has seen: one per contributing record,
\* that is per record that was neither skipped nor rejected by the parser
Contributing(cell) ==
    Get(nonskipped, cell, 0)
        - (IF lastCall.op = "add_record" /\ lastCall.cell = cell
              /\ lastCall.ret.kind = "ParsingError" THEN 1 ELSE 0)

\* C5: for every cell, `new` is invoked exactly once, on the first contributing
\* record, and `update` exactly once for each later contributing record and never
\* before `new`; a cell once in the map is never removed.
C5_NewOnceThenUpdates ==
    /\ [](/\ Cells = DOMAIN calls
          /\ \A cell \in DOMAIN calls \cup DOMAIN nonskipped :
                /\ Len(Get(calls, cell, <<>>)) = Contributing(cell)
                /\ \A i \in 1..Len(Get(calls, cell, <<>>)) :
                      calls[cell][i] = (IF i = 1 THEN "new" ELSE "update"))
    /\ [][Cells \subseteq DOMAIN aggregations']_vars

C5_Witness ==
    \E cell \in DOMAIN calls : calls[cell] = <<"new", "update", "update">>

RECURSIVE SumOfCounts(_, _)
SumOfCounts(aggs, C) ==
    IF C = {} THEN 0
    ELSE LET c == CHOOSE x \in C : TRUE
         IN  aggs[c].val + SumOfCounts(aggs, C \ {c})

\* C6: with Count, each cell's output is the number of non-skipped records of that
\* cell, and the counts of all cells sum to the number of non-skipped records
\* ingested.
C6_CountIsNumberOfNonSkippedRecords ==
    aggtype = "Count"
        => (/\ DOMAIN nonskipped = Cells
            /\ \A cell \in Cells :
                  parse_writing(aggregations, cell[1], cell[2])
                      = UsizeToString(nonskipped[cell])
            /\ SumOfCounts(aggregations, Cells) = line_num - nskipped)

C6_Witness ==
    /\ aggtype = "Count"
    /\ nskipped = 1
    /\ line_num = 3
    /\ \E c \in Cells : parse_writing(aggregations, c[1], c[2]) = <<"2">>

\* C7: parse_val returns Ok(None) exactly when empty-skipping is enabled and the
\* raw string is, in any case, one of "", "na", "n/a", "none", "null", "nan"; with
\* skipping disabled it never returns Ok(None); a Text-domain Count over
\* ["", "NA", "null", "5"] is 4 with skipping disabled and 1 with it enabled.
C7_SkipExactlyVocabularyWhenEnabled ==
    /\ lastCall.op = "add_record"
          => /\ (lastCall.parsed = "None")
                    <=> (SkippingEnabled /\ IsVocabularyWord(lastCall.str_val))
             /\ ~SkippingEnabled => lastCall.parsed # "None"
    /\ (aggtype = "Count" /\ raws = << <<>>, <<"N", "A">>, <<"n", "u", "l", "l">>, <<"5">> >>)
          => parse_writing(aggregations, TOTAL, TOTAL)
                = (IF SkippingEnabled THEN <<"1">> ELSE <<"4">>)

C7_Witness ==
    /\ aggtype = "Count"
    /\ SkippingEnabled
    /\ raws = << <<>>, <<"N", "A">>, <<"n", "u", "l", "l">>, <<"5">> >>
    /\ lastCall.parsed = "Some"
    /\ nskipped = 3
    /\ parse_writing(aggregations, TOTAL, TOTAL) = <<"1">>

\* the values given to the accumulator, in ascending order
RECURSIVE SortedValues(_)
SortedValues(seq) ==
    IF Len(seq) = 0 THEN <<>>
    ELSE LET i == CHOOSE k \in DOMAIN seq : \A o \in DOMAIN seq : ~DecLt(seq[o].val, seq[k].val)
         IN  <<seq[i].val>>
                \o SortedValues([k \in 1..(Len(seq) - 1) |-> IF k < i THEN seq[k] ELSE seq[k + 1]])

\* twice the reference median of the values: twice the middle element, or the sum
\* of the two middle elements
TwiceReferenceMedian(seq) ==
    LET sorted == SortedValues(seq)
        n == Len(sorted)
    IN  IF n % 2 = 1 THEN DecAdd(sorted[(n + 1) \div 2], sorted[(n + 1) \div 2])
        ELSE DecAdd(sorted[n \div 2], sorted[n \div 2 + 1])

OccIn(v, n) == Cardinality({i \in 1..n : fed[i] = v})
\* the largest number of occurrences of one value
MaxOcc == CHOOSE m \in 1..Len(fed) :
              /\ \E i \in 1..Len(fed) : OccIn(fed[i], Len(fed)) = m
              /\ \A i \in 1..Len(fed) : OccIn(fed[i], Len(fed)) <= m
\* the first position at which the running count of a value is the largest count
FirstReach == CHOOSE i \in 1..Len(fed) :
                  /\ OccIn(fed[i], i) = MaxOcc
                  /\ \A j \in 1..(i - 1) : OccIn(fed[j], j) < MaxOcc
\* the first position of a value whose count is the largest count
FirstAppearing == CHOOSE i \in 1..Len(fed) :
                      /\ OccIn(fed[i], Len(fed)) = MaxOcc
                      /\ \A j \in 1..(i - 1) : OccIn(fed[j], Len(fed)) < MaxOcc

C10_ModeTieReturnsFirstAppearing ==
    (aggtype = "Mode" /\ acc.kind = "some")
        => ModeToOutput(acc.state) = fed[FirstAppearing].val

\* the accumulator of method t after new on the first value of seq and update on
\* each of the others, in order
RECURSIVE UpdateAll(_, _, _)
UpdateAll(t, self, seq) ==
    IF Len(seq) = 0 THEN self ELSE UpdateAll(t, Update(t, self, Head(seq)), Tail(seq))
Accumulate(t, seq) == UpdateAll(t, New(t, Head(seq)), Tail(seq))

\* seq with the values at positions i and i + 1 exchanged
Swap(seq, i) ==
    [k \in DOMAIN seq |-> IF k = i THEN seq[i + 1] ELSE IF k = i + 1 THEN seq[i] ELSE seq[k]]

RECURSIVE ExactHundredths(_)
ExactHundredths(seq) ==
    IF Len(seq) = 0 THEN 0
    ELSE Head(seq).val.m * (10 ^ (2 - Head(seq).val.e)) + ExactHundredths(Tail(seq))

LeastAt == CHOOSE i \in DOMAIN fed :
              \A j \in DOMAIN fed : ~PayloadLt(fed[i].variant, fed[j].val, fed[i].val)
GreatestAt == CHOOSE i \in DOMAIN fed :
                 \A j \in DOMAIN fed : ~PayloadLt(fed[i].variant, fed[i].val, fed[j].val)
SameValue(a, b) ==
    a.variant = b.variant /\ ~PayloadLt(a.variant, a.val, b.val)
        /\ ~PayloadLt(a.variant, b.val, a.val)

C14_MinimumAndMaximumAreExtremes ==
    /\ []((aggtype = "Minimum" /\ acc.kind = "some")
            => /\ SameValue(acc.state.min_val, fed[LeastAt])
               /\ \E i \in DOMAIN fed : fed[i] = acc.state.min_val
               /\ MinimumToOutput(acc.state) = ExtremeToOutput(acc.state.min_val))
    /\ []((aggtype = "Maximum" /\ acc.kind = "some")
            => /\ SameValue(acc.state.max_val, fed[GreatestAt])
               /\ \E i \in DOMAIN fed : fed[i] = acc.state.max_val
               /\ MaximumToOutput(acc.state) = ExtremeToOutput(acc.state.max_val))
    /\ [][(aggtype = "Minimum" /\ acc.kind = "some" /\ acc'.kind = "some"
             /\ acc'.state # acc.state)
            => PayloadLt(parser.values_type, acc'.state.min_val.val,
                         acc.state.min_val.val)]_vars
    /\ [][(aggtype = "Maximum" /\ acc.kind = "some" /\ acc'.kind = "some"
             /\ acc'.state # acc.state)
            => PayloadLt(parser.values_type, acc.state.max_val.val,
                         acc'.state.max_val.val)]_vars

C14_Witness ==
    /\ aggtype = "Maximum"
    /\ parser.values_type = "Text"
    /\ pc = "done"
    /\ fed = <<Text(<<"9">>), Text(<<"1", "0">>), Text(<<"B">>), Text(<<"a">>)>>
    /\ output = << <<"a">> >>

\* C15: CountUnique's output is the number of distinct values given and its set
\* holds exactly those values, so that a repeated value changes nothing.
C15_CountUniqueCountsDistinctValues ==
    (aggtype = "CountUnique" /\ acc.kind = "some")
        => /\ acc.state.vals = {fed[i].val : i \in DOMAIN fed}
           /\ CountUniqueToOutput(acc.state)
                 = UsizeToString(Cardinality({fed[i] : i \in DOMAIN fed}))

C15_Witness ==
    /\ aggtype = "CountUnique"
    /\ pc = "done"
    /\ Len(fed) = 4
    /\ fed[1] = fed[3]
    /\ output = << <<"2">> >>

\* C16: StdDev's counter is the number of values absorbed, and below two values
\* its output is the empty string.
C16_StdDevNeedsTwoObservations ==
    (aggtype = "StdDev" /\ acc.kind = "some")
        => /\ acc.state.num_records = Len(fed)
           /\ Len(fed) < 2 => (~StdDevCompute(acc.state).some
                                 /\ StdDevToOutput(acc.state) = <<>>)
           /\ pc = "done" /\ Len(fed) < 2 => output = << <<>> >>

C16_Witness ==
    /\ aggtype = "StdDev"
    /\ pc = "done"
    /\ Len(fed) = 1
    /\ acc.state.num_records = 1
    /\ output = << <<>> >>

RECURSIVE LexicographicKeys(_)
\* the keys of a set in lexicographic order of the key string
LexicographicKeys(S) ==
    IF S = {} THEN <<>>
    ELSE LET least == CHOOSE k \in S : \A other \in S \ {k} : StrLt(k, other)
         IN  <<least>> \o LexicographicKeys(S \ {least})

\* the order an axis policy asks for, given the keys in order of insertion
PolicyOrder(policy, seen) ==
    CASE policy = "IndexOrder" -> seen
      [] policy = "Ascending"  -> LexicographicKeys({seen[i] : i \in DOMAIN seen})
      [] policy = "Descending" -> Reversed(LexicographicKeys({seen[i] : i \in DOMAIN seen}))

\* C17: on each axis the keys are emitted in the order its policy fixes: IndexOrder
\* in order of first insertion, Ascending in lexicographic order, Descending in
\* reverse lexicographic order; the policy of the other axis plays no part.
C17_OrderFollowsPolicy ==
    (pc = "done" /\ lastCall.op = "write_results")
        => /\ [r \in 1..(Len(output) - 1) |-> output[r + 1][1]]
                 = PolicyOrder(row_order(<<arg_matches.ascrow, arg_matches.descrow>>).val,
                               first_seen.rows)
           /\ [c \in 1..(Len(output[1]) - 1) |-> output[1][c + 1]]
                 = PolicyOrder(column_order(<<arg_matches.indexcol,
                                              arg_matches.desccol>>).val,
                               first_seen.cols)

ConflictingOrderFlags ==
    \/ arg_matches.ascrow /\ arg_matches.descrow
    \/ arg_matches.indexcol /\ arg_matches.desccol

\* C18: a command line with both -A and -D, or with both -I and -R, ends in a
\* configuration error before any record is taken: no add_record call is made,
\* nothing is aggregated and nothing is written.
C18_ConflictingFlagsFailBeforeIngestion ==
    ConflictingOrderFlags
        => /\ pc \in {"get_aggregator", "error"}
           /\ pc = "error" => result.kind = "InvalidConfiguration"
           /\ lastCall = NoCall
           /\ line_num = 0
           /\ aggregations = EmptyMap
           /\ indexes = {} /\ columns = {}
           /\ output = <<>>

C18_Witness ==
    /\ pc = "error"
    /\ arg_matches.rows = <<<<"0">>>>
    /\ arg_matches.ascrow /\ arg_matches.descrow
    /\ ~arg_matches.indexcol
    /\ result = InvalidConfiguration("You can only enter one of the -A and -D flags")
    /\ lastCall = NoCall
    /\ output = <<>>

\* C19: write_results writes a header row, the empty string followed by every
\* column key once, then one row per row key; every row has as many fields as the
\* header, its first field being the row key and the field under a column key
\* being the output of the cell's accumulator, or the empty string when the cell
\* does not exist.
C19_GridShape ==
    (pc = "done" /\ lastCall.op = "write_results")
        => /\ Len(output) = 1 + Cardinality(indexes)
           /\ output[1][1] = <<>>
           /\ Len(output[1]) = 1 + Cardinality(columns)
           /\ {output[1][c] : c \in 2..Len(output[1])} = columns
           /\ {output[r][1] : r \in 2..Len(output)} = indexes
           /\ \A r \in 2..Len(output) :
                 /\ Len(output[r]) = Len(output[1])
                 /\ \A c \in 2..Len(output[1]) :
                       output[r][c] =
                           (IF <<output[r][1], output[1][c]>> \in Cells
                            THEN ToOutput(aggtype, aggregations[<<output[r][1], output[1][c]>>])
                            ELSE <<>>)

C19_Witness ==
    /\ pc = "done"
    /\ lastCall.op = "write_results"
    /\ Len(output) = 3
    /\ Len(output[1]) = 3
    /\ Cardinality(Cells) = 2
    /\ \E r \in 2..3, c \in 2..3 : output[r][c] = <<>>
    /\ \E r \in 2..3, c \in 2..3 : output[r][c] = <<"2">>

\* C20: with an empty row-index list every row key is "total", and likewise for
\* the column-index list; with both empty every contributing record falls into
\* the cell ("total", "total").
C20_EmptySelectionIsTotal ==
    /\ index_cols = <<>>
          => /\ indexes \subseteq {TOTAL}
             /\ lastCall.op = "add_record" => lastCall.cell[1] = TOTAL
    /\ column_cols = <<>>
          => /\ columns \subseteq {TOTAL}
             /\ lastCall.op = "add_record" => lastCall.cell[2] = TOTAL
    /\ (index_cols = <<>> /\ column_cols = <<>>)
          => /\ Cells \subseteq {<<TOTAL, TOTAL>>}
             /\ DOMAIN calls \subseteq {<<TOTAL, TOTAL>>}

C20_Witness ==
    /\ index_cols = <<>>
    /\ column_cols = <<>>
    /\ aggtype = "Count"
    /\ pc = "done"
    /\ output = << << <<>>, TOTAL >>, << TOTAL, <<"3">> >> >>

\* the tuple of field values a record has at the indices of the index list
FieldTuple(cols, record) == [i \in DOMAIN cols |-> record[cols[i] + 1]]

\* C21: for a fixed non-empty index list, two records whose tuples of field
\* values at those indices differ get different composite keys.
C21_CompositeKeysAreCollisionFree ==
    (pc = "key" /\ index_cols # <<>>)
        => \A i, j \in DOMAIN fed :
              FieldTuple(index_cols, fed[i]) # FieldTuple(index_cols, fed[j])
                  => output[i] # output[j]

RECURSIVE NonSkippedIn(_)
\* the number of non-skipped records that fell into the cells of C
NonSkippedIn(C) ==
    IF C = {} THEN 0
    ELSE LET c == CHOOSE x \in C : TRUE
         IN  nonskipped[c] + NonSkippedIn(C \ {c})

\* C22: a parse error returned by the run carries the 0-based position of the
\* failing record among the records read, skipped records counted, and the raw
\* value string of that record, unmodified.
C22_ParseErrorCarriesPositionAndRawValue ==
    (pc = "error" /\ result.kind = "ParsingError")
        => /\ lastCall.op = "add_record"
           /\ result.str_to_parse = lastCall.str_val
           /\ result.line_num
                 = nskipped + NonSkippedIn(DOMAIN nonskipped) - 1

C22_Witness ==
    /\ pc = "error"
    /\ result.kind = "ParsingError"
    /\ nskipped = 1
    /\ result.line_num = 2
    /\ result.str_to_parse = <<"x">>

\* C23: no sequence of add_record calls followed by write_results aborts the
\* process: a total that leaves the range of the decimal type is returned as a
\* typed error, not a panic.
C23_NoPanic ==
    /\ result.kind # "panic"
    /\ pc # "aborted"

\* what the parser made of the value of the last record
LastParsed == parse_val(parser, lastCall.str_val, lastCall.line_num)

\* C24: every value the parser hands to an accumulator is a present value of the
\* configured domain, that domain is one the chosen method has a match arm for,
\* and no accumulator in the cell map was built or updated through a fallback arm.
C24_ValuesHaveTheConfiguredVariant ==
    /\ (lastCall.op = "add_record" /\ lastCall.parsed = "Some")
          => /\ LastParsed.kind = "Some"
             /\ LastParsed.val.some
             /\ LastParsed.val.variant = parser.values_type
             /\ ~TakesFallback(aggtype, LastParsed.val)
    /\ ~TakesFallback(aggtype, [variant |-> parser.values_type, some |-> TRUE])
    /\ \A cell \in DOMAIN aggregations :
          /\ aggtype = "Maximum"
                => IsSome(aggregations[cell].max_val, parser.values_type)
          /\ aggtype = "Minimum"
                => IsSome(aggregations[cell].min_val, parser.values_type)
          /\ aggtype = "Range"
                => /\ IsSome(aggregations[cell].min_val, parser.values_type)
                   /\ IsSome(aggregations[cell].max_val, parser.values_type)
          /\ aggtype \in {"Mean", "Median"} => aggregations[cell].num >= 1
          /\ aggtype = "StdDev" => aggregations[cell].num_records >= 1
          /\ aggtype = "Mode" => aggregations[cell].max_count >= 1
          /\ aggtype = "CountUnique" => <<>> \notin aggregations[cell].vals

C24_Witness ==
    /\ aggtype = "StdDev"
    /\ lastCall.op = "add_record"
    /\ lastCall.parsed = "Some"
    /\ LastParsed.val = FloatingPoint(Frac(3, 2))
    /\ \E cell \in DOMAIN aggregations : aggregations[cell].num_records = 2

RECURSIVE HistogramTotal(_, _)
\* the sum of the counts of a histogram over the keys K
HistogramTotal(values, K) ==
    IF K = {} THEN 0
    ELSE LET k == CHOOSE x \in K : TRUE
         IN  values[k] + HistogramTotal(values, K \ {k})

\* C27: every accumulator in the cell map has absorbed at least one value: a Mean
\* has num >= 1, a Median has num >= 1 and a non-empty histogram whose counts sum
\* to num, so that Mean's division and Median's walk never panic.
C27_StoredAccumulatorsAreNeverEmpty ==
    \A cell \in DOMAIN aggregations :
        /\ cell \in DOMAIN calls /\ Len(calls[cell]) >= 1
        /\ aggtype = "Mean"
              => /\ aggregations[cell].num >= 1
                 /\ ~MeanPanics(aggregations[cell])
        /\ aggtype = "Median"
              => /\ aggregations[cell].num >= 1
                 /\ DOMAIN aggregations[cell].values # {}
                 /\ HistogramTotal(aggregations[cell].values,
                                   DOMAIN aggregations[cell].values)
                       = aggregations[cell].num
                 /\ ~MedianCompute(aggregations[cell]).panic

C27_Witness ==
    /\ aggtype = "Median"
    /\ pc = "done"
    /\ nskipped = 0
    /\ \E cell \in DOMAIN aggregations :
          /\ aggregations[cell].num = 2
          /\ Cardinality(DOMAIN aggregations[cell].values) = 2
    /\ Len(output) = 2
    /\ output[2][2] = <<"3", ".", "2", "5">>

\* C28: an add_record call that returns a parse error has created and updated no
\* accumulator: the cell map after the call is the cell map before it; only the
\* key sets may have gained the record's row key and column key.
C28_FailedRecordLeavesCellsUnchanged ==
    [][(lastCall'.op = "add_record" /\ lastCall'.ret.kind = "ParsingError")
          => /\ aggregations' = aggregations
             /\ calls' = calls
             /\ indexes' \subseteq indexes \cup {lastCall'.cell[1]}
             /\ columns' \subseteq columns \cup {lastCall'.cell[2]}]_vars

C28_Witness ==
    /\ pc = "error"
    /\ lastCall.op = "add_record"
    /\ lastCall.ret.kind = "ParsingError"
    /\ Cells # {}
    /\ lastCall.cell \notin Cells
    /\ lastCall.cell[1] \in indexes \ RowsOf(Cells)

\* C29: once validate_columns has succeeded against the header row of n fields,
\* every row index, every column index and the value index of the aggregator
\* is below n, so the field lookups of add_record and get_colname on a record
\* of n fields find their field
C29_ValidatedIndexesAreInRange ==
    /\ \A i \in DOMAIN index_cols : index_cols[i] < Len(ConfigHeaders)
    /\ \A i \in DOMAIN column_cols : column_cols[i] < Len(ConfigHeaders)
    /\ values_col < Len(ConfigHeaders)
    /\ \A record \in Records :
          /\ Len(record) = Len(ConfigHeaders)
          /\ \A j \in DOMAIN index_cols : index_cols[j] + 1 \in DOMAIN record
          /\ \A j \in DOMAIN column_cols : column_cols[j] + 1 \in DOMAIN record
          /\ values_col + 1 \in DOMAIN record

C29_Witness ==
    /\ pc = "aggregate"
    /\ arg_matches.column_cols = <<<<"k", "[", "1", "]">>>>
    /\ arg_matches.values_col = <<"v">>
    /\ column_cols = <<1>>
    /\ values_col = 2
    /\ line_num >= 1

\* the selections of the -r options, one by one
RequestedIndexes == get_multiple_header_columns(arg_matches.indexes).val

\* C30: get_idx_vec removes no repeat: the row indexes of the aggregator are the
\* resolved index of every requested field, in the order of the request, and
\* every row key joins one field per request
C30_GetIdxVecKeepsRepeats ==
    pc \in {"aggregate", "done"} =>
        /\ Len(index_cols) = Len(RequestedIndexes)
        /\ \A i \in DOMAIN RequestedIndexes :
              index_cols[i] = get_header_idx(RequestedIndexes[i], ConfigHeaders,
                                             arg_matches.has_header).val
        /\ \A key \in indexes :
              \E record \in Records :
                 key = Join([i \in DOMAIN RequestedIndexes |->
                                record[get_header_idx(RequestedIndexes[i], ConfigHeaders,
                                                      arg_matches.has_header).val + 1]],
                            FIELD_SEPARATOR)

C30_Witness ==
    /\ arg_matches.indexes = <<<<"k", ",", "k">>>>
    /\ index_cols = <<0, 0>>
    /\ (<<"a">> \o FIELD_SEPARATOR \o <<"a">>) \in indexes

\* the positions (from 0) of the header fields equal to name that have k equal
\* fields before them: one position, or none when fewer than k + 1 fields equal name
KthFieldEqualTo(name, k) ==
    {i - 1 : i \in {j \in DOMAIN SelectHeaders :
                       /\ SelectHeaders[j] = name
                       /\ Cardinality({h \in 1..(j - 1) : SelectHeaders[h] = name}) = k}}

IsNumber(str) == str # <<>> /\ AllDigits(str)

\* C25: against a header row, the selection name[k] resolves to the position of
\* the (k+1)-th header field equal to name, a selection without brackets to the
\* first one, brackets inside quotes belong to the name, and the result is a
\* configuration error when fewer than k+1 fields equal name or when the text
\* between the brackets is not a number
C25_SelectorResolvesToKthOccurrence ==
    (/\ pc = "selected"
     /\ arg_matches.has_header
     /\ arg_matches.parts.quote # "free")
    => IF arg_matches.parts.bracketed /\ ~IsNumber(arg_matches.parts.order)
       THEN result.kind = "Err" /\ result.err.kind = "InvalidConfiguration"
       ELSE IF KthFieldEqualTo(arg_matches.parts.name,
                               IF arg_matches.parts.bracketed
                               THEN DigitsToNat(arg_matches.parts.order) ELSE 0) = {}
       THEN result.kind = "Err" /\ result.err.kind = "InvalidConfiguration"
       ELSE /\ result.kind = "Ok"
            /\ result.val \in KthFieldEqualTo(arg_matches.parts.name,
                                              IF arg_matches.parts.bracketed
                                              THEN DigitsToNat(arg_matches.parts.order)
                                              ELSE 0)

\* C26: without a header row, a selection that is not a number written in
\* ASCII digits is rejected with a configuration error and never ends the
\* process, and a number is accepted only when it is below the number of
\* fields of the first row
C26_NoHeaderSelectionsAreFieldNumbers ==
    (pc = "selected" /\ ~arg_matches.has_header)
    => IF IsNumber(arg_matches.colname)
       THEN result.kind = "Ok" =>
               /\ result.val = DigitsToNat(arg_matches.colname)
               /\ result.val < Len(SelectHeaders)
       ELSE result.kind = "Err" /\ result.err.kind = "InvalidConfiguration"

====
